---- MODULE Spec2Model ----
(***************************************************************************)
(* State-machine model of the queryark backend (src-tauri): the connection *)
(* registry (db/pool.rs), the query brokerage with timeout / cancellation  *)
(* / row cap (commands/query.rs), the pinned-connection transactions of    *)
(* the Postgres and MySQL drivers (db/drivers/postgres.rs, mysql.rs) and   *)
(* the SSH tunnel manager (db/tunnel.rs).                                  *)
(*                                                                         *)
(* Each subsystem has its own next-state relation and specification over   *)
(* the shared variable tuple; the variables of the other subsystems are    *)
(* left unchanged.                                                         *)
(***************************************************************************)
EXTENDS Integers, Sequences, FiniteSets, TLC

VARIABLES
    pools,        \* PoolManager.pools : connection id -> Arc<DriverHandle> | NoHandle
    poolLog,      \* history of add/get/remove calls on the registry
    poolRes,      \* what the most recent registry call returned
    cancelSlots,  \* CancellationRegistry : query id -> call owning the sender | NoCall
    call,         \* the execute_query / execute_query_page calls
    cancelRet,    \* what the most recent cancel_query returned
    txn_conn,     \* driver.txn_conn : the pinned pool connection, 0 for None
    txnMutex,     \* the task holding the tokio Mutex around txn_conn | NoTask
    task,         \* the tasks calling into one Postgres / MySQL driver
    begun,        \* connections on which BEGIN succeeded and no COMMIT/ROLLBACK yet
    tunnels,      \* TunnelManager.tunnels : connection id -> SshTunnel | NoTunnel
    fwd,          \* the runtime's task slots holding the forwarders (accept loops)
    caller,       \* the callers of ensure_tunnel / remove_tunnel
    tunnelRet,    \* the most recent tunnel-manager call that returned, and its result
    fnArg,        \* the arguments of the pure function under evaluation
    fnRes,        \* its result, once it has been applied
    keyring,      \* the OS keychain : service name -> entry username -> secret | NoSecret
    keyRet,       \* the most recent keychain call and what it returned
    cmd,          \* the connect_db / test_connection / disconnect_db commands in progress
    connRet,      \* the most recent connection command that returned, and its result
    exp,          \* the full-table export in progress: its loop variables, pages and result
    dump,         \* the dump_database command in progress, its file and its events
    wrapper,      \* a wrapper driver, its wrapped driver and the calls made on it
    pairs,        \* the forwarded pairings spawned by the accept loops
    rowdb         \* what the row operations have written: autocommitted, or inside an open transaction

vars == << pools, poolLog, poolRes, cancelSlots, call, cancelRet,
           txn_conn, txnMutex, task, begun, tunnels, fwd, caller, tunnelRet,
           fnArg, fnRes,
           keyring, keyRet,
           cmd, connRet,
           exp,
           dump,
           wrapper,
           pairs,
           rowdb >>

poolVars   == << pools, poolLog, poolRes >>
queryVars  == << cancelSlots, call, cancelRet >>
txnVars    == << txn_conn, txnMutex, task, begun >>
tunnelVars == << tunnels, fwd, caller, tunnelRet >>
pureVars   == << fnArg, fnRes >>
keychainVars == << keyring, keyRet >>
connVars   == << cmd, connRet >>
exportVars == << exp >>
dumpVars   == << dump >>
wrapperVars == << wrapper >>
pairingVars == << pairs >>
rowOpVars == << rowdb >>
extVars == << pureVars, keychainVars, connVars, exportVars, dumpVars, wrapperVars, pairingVars, rowOpVars >>
coreVars   == << poolVars, queryVars, txnVars, tunnelVars >>
notPure == << keychainVars, connVars, exportVars, dumpVars, wrapperVars, pairingVars, rowOpVars >>
notKeychain == << pureVars, connVars, exportVars, dumpVars, wrapperVars, pairingVars, rowOpVars >>
notConn == << pureVars, keychainVars, exportVars, dumpVars, wrapperVars, pairingVars, rowOpVars >>
notExport == << pureVars, keychainVars, connVars, dumpVars, wrapperVars, pairingVars, rowOpVars >>
notDump == << pureVars, keychainVars, connVars, exportVars, wrapperVars, pairingVars, rowOpVars >>
notWrapper == << pureVars, keychainVars, connVars, exportVars, dumpVars, pairingVars, rowOpVars >>
notPairing == << pureVars, keychainVars, connVars, exportVars, dumpVars, wrapperVars, rowOpVars >>
notRowOp == << pureVars, keychainVars, connVars, exportVars, dumpVars, wrapperVars, pairingVars >>

-----------------------------------------------------------------------------
(* Bounds of the model *)

MaxPoolOps    == 4    \* length of a registry call history
MaxDriverRows == 3    \* rows a driver returns (besides the over-default case)
MaxRowsArg    == 2    \* largest explicit max_rows argument
MaxConns      == 3    \* pool_max_connections of the modelled driver
MaxChars      == 3    \* characters in a cell text
MaxCellSize   == 3    \* largest max_cell_size argument
MaxFwd        == 2    \* forwarder task slots of the runtime
NumPorts      == 2    \* ephemeral ports the OS can hand out
MaxLimit      == 10   \* largest limit / offset of a page request
MaxFilters    == 2    \* filters of one WHERE clause
MaxPages      == 3    \* page requests of one export
MaxRun        == 11   \* records of the longest run of a CSV file
MaxHandleOps  == 3    \* calls made on one handle
MaxWrapperOps == 3    \* calls made on one wrapper driver
MaxEscLen     == 3    \* characters of a string to escape or validate
MaxPairs      == 2    \* forwarded pairings alive at a time

ConnIds   == {"c1", "c2"}
QueryIds  == {"q1", "q2"}
Calls     == {"A", "B"}
Tasks     == {"t1", "t2", "t3"}
Callers   == {"u1", "u2"}

-----------------------------------------------------------------------------
(* Program constants *)

DEFAULT_QUERY_TIMEOUT == 30
DEFAULT_MAX_ROWS      == 10000

-----------------------------------------------------------------------------
(* Driver handles (db/handle.rs) *)

Variants == {"Sql", "Document", "KeyValue", "Graph"}

NoHandle == [variant |-> "none", arc |-> 0]

\* Arc::new(handle): a fresh shared reference around a handle of some variant.
ArcNew(variant, n) == [variant |-> variant, arc |-> n]

-----------------------------------------------------------------------------
(* Connection registry (db/pool.rs) *)

\* pools.insert(id, Arc::new(handle)) the way a keep-the-old-entry bug would do it
PoolInsertKeepOld(p, id, h) ==
    IF p[id] = NoHandle THEN [p EXCEPT ![id] = h] ELSE p

\* pools.insert(id, Arc::new(handle))
PoolInsert(p, id, h) == [p EXCEPT ![id] = h]

\* pools.get(id).cloned().ok_or_else(ConnectionNotFound)
PoolLookup(p, id) ==
    IF p[id] = NoHandle
    THEN [ok |-> FALSE, err |-> "ConnectionNotFound", handle |-> NoHandle]
    ELSE [ok |-> TRUE, err |-> "none", handle |-> p[id]]

\* pools.remove(id)
PoolDelete(p, id) == [p EXCEPT ![id] = NoHandle]

PoolAdd(id, variant) ==
    /\ Len(poolLog) < MaxPoolOps
    /\ LET h == ArcNew(variant, Len(poolLog) + 1) IN
        /\ pools' = PoolInsert(pools, id, h)
        /\ poolLog' = Append(poolLog, [op |-> "add", id |-> id, handle |-> h])
        /\ poolRes' = [op |-> "add", id |-> id, ok |-> TRUE, err |-> "none",
                       handle |-> NoHandle]
    /\ UNCHANGED << queryVars, txnVars, tunnelVars, extVars >>

PoolGet(id) ==
    /\ Len(poolLog) < MaxPoolOps
    /\ LET r == PoolLookup(pools, id) IN
        /\ poolRes' = [op |-> "get", id |-> id, ok |-> r.ok, err |-> r.err,
                       handle |-> r.handle]
        /\ poolLog' = Append(poolLog, [op |-> "get", id |-> id, handle |-> NoHandle])
    /\ UNCHANGED << pools, queryVars, txnVars, tunnelVars, extVars >>

PoolRemove(id) ==
    /\ Len(poolLog) < MaxPoolOps
    /\ LET r == PoolLookup(pools, id) IN
        /\ pools' = PoolDelete(pools, id)
        /\ poolRes' = [op |-> "remove", id |-> id, ok |-> r.ok, err |-> r.err,
                       handle |-> NoHandle]
        /\ poolLog' = Append(poolLog, [op |-> "remove", id |-> id, handle |-> NoHandle])
    /\ UNCHANGED << queryVars, txnVars, tunnelVars, extVars >>

NextPool ==
    \/ \E id \in ConnIds, v \in Variants : PoolAdd(id, v)
    \/ \E id \in ConnIds : PoolGet(id)
    \/ \E id \in ConnIds : PoolRemove(id)

-----------------------------------------------------------------------------
(* Option<T> *)

None    == [some |-> FALSE, v |-> 0]
NoneStr == [some |-> FALSE, v |-> ""]     \* None of an Option<String>
Some(x) == [some |-> TRUE, v |-> x]

Min(a, b) == IF a < b THEN a ELSE b

-----------------------------------------------------------------------------
(* Cells and responses (models/query.rs) *)

\* A string is a sequence of characters, each given by its UTF-8 byte width.
RECURSIVE ByteLen(_)
ByteLen(text) == IF text = << >> THEN 0 ELSE Head(text) + ByteLen(Tail(text))

\* v.chars().take(n).collect::<String>()
TakeChars(text, n) == SubSeq(text, 1, Min(n, Len(text)))

IntCell(i)     == [tag |-> "Int", val |-> i, text |-> << >>,
                   full_length |-> 0, preview_length |-> 0]
TextCell(tag, i, text) == [tag |-> tag, val |-> i, text |-> text,
                   full_length |-> 0, preview_length |-> 0]

\* The texts the modelled driver puts in its second column, by row number.
RowText(i) == IF i % 3 = 1 THEN << 1 >>
              ELSE IF i % 3 = 2 THEN << 1, 1, 1 >>
              ELSE << 2, 1 >>

RowTag(i) == IF i % 2 = 1 THEN "Text" ELSE "Json"

\* What a driver's execute_raw returns for a statement yielding n rows:
\* row_count = rows.len(), truncated = false, max_rows_limit = None.
DriverRows(n) == [i \in 1..n |-> << IntCell(i), TextCell(RowTag(i), i, RowText(i)) >>]

DriverResponse(n) ==
    LET rows == DriverRows(n) IN
    [rows |-> rows, row_count |-> Len(rows), truncated |-> FALSE,
     max_rows_limit |-> None]

NoResponse == [rows |-> << >>, row_count |-> 0, truncated |-> FALSE,
               max_rows_limit |-> None]

\* One cell through the match of truncate_large_values.
TruncateCell(cell, max_cell_size) ==
    IF cell.tag \in {"Text", "Json"} /\ ByteLen(cell.text) > max_cell_size
    THEN [cell EXCEPT !.tag = IF cell.tag = "Text" THEN "LargeText" ELSE "LargeJson",
                      !.text = TakeChars(cell.text, max_cell_size),
                      !.full_length = ByteLen(cell.text)]
    ELSE IF cell.tag = "Binary" /\ ByteLen(cell.text) > max_cell_size
    THEN [cell EXCEPT !.tag = "LargeBinary",
                      !.text = << >>,
                      !.preview_length = Min(max_cell_size, ByteLen(cell.text)),
                      !.full_length = ByteLen(cell.text)]
    ELSE cell

truncate_large_values(response, max_cell_size) ==
    [response EXCEPT !.rows =
        [i \in 1..Len(response.rows) |->
            [j \in 1..Len(response.rows[i]) |->
                TruncateCell(response.rows[i][j], max_cell_size)]]]

\* The row cap of execute_query with the row_count rewrite left out.
ApplyRowCapStaleCount(response, max_rows) ==
    LET limit == IF max_rows.some THEN max_rows.v ELSE DEFAULT_MAX_ROWS IN
    IF Len(response.rows) > limit
    THEN [response EXCEPT !.rows = [i \in 1..limit |-> response.rows[i]],
                          !.truncated = TRUE,
                          !.max_rows_limit = Some(limit)]
    ELSE response

\* The row cap of execute_query: rows.truncate(limit) and the three rewrites.
ApplyRowCap(response, max_rows) ==
    LET limit == IF max_rows.some THEN max_rows.v ELSE DEFAULT_MAX_ROWS IN
    IF Len(response.rows) > limit
    THEN [response EXCEPT !.rows = [i \in 1..limit |-> response.rows[i]],
                          !.truncated = TRUE,
                          !.max_rows_limit = Some(limit),
                          !.row_count = limit]
    ELSE response

\* match result { Ok(mut response) => ... } of execute_query / execute_query_page
PostProcess(kind, response, max_rows, max_cell_size) ==
    LET capped == IF kind = "execute_query" THEN ApplyRowCap(response, max_rows)
                  ELSE response
    IN IF max_cell_size.some THEN truncate_large_values(capped, max_cell_size.v)
       ELSE capped

\* timeout_secs.map(Duration::from_secs).unwrap_or(DEFAULT_QUERY_TIMEOUT)
EffectiveTimeout(timeout_secs) ==
    IF timeout_secs.some THEN timeout_secs.v ELSE DEFAULT_QUERY_TIMEOUT

-----------------------------------------------------------------------------
(* Cancellation registry: query id -> one-shot signal sender (db/cancel.rs)  *)
(* A slot holds the sender whose receiver the registering call awaits; the  *)
(* model names the sender by that call.                                     *)

NoCall == "nobody"

\* Dropping a one-shot sender without sending closes its receiver.
DropSender(calls, owner) ==
    IF owner # NoCall /\ calls[owner].rx = "open"
    THEN [calls EXCEPT ![owner].rx = "closed"]
    ELSE calls

\* register(id): a new signal replaces whatever the slot held.
RegistryRegister(slots, qid, c) == [slots EXCEPT ![qid] = c]

\* remove(id): drops the slot silently.
RegistryRemove(slots, qid) == [slots EXCEPT ![qid] = NoCall]

\* cancel(id): takes the sender out of the slot and fires it; true iff a slot was present.
RegistryCancel(slots, qid) ==
    [ret |-> slots[qid] # NoCall, slots |-> [slots EXCEPT ![qid] = NoCall]]

-----------------------------------------------------------------------------
(* Query brokerage (commands/query.rs) *)

NoOutcome == [tag |-> "none", err |-> "none", secs |-> 0, response |-> NoResponse]

OkOutcome(response) == [tag |-> "Ok", err |-> "none", secs |-> 0, response |-> response]

ErrOutcome(err, secs) == [tag |-> "Err", err |-> err, secs |-> secs, response |-> NoResponse]

IdleCall ==
    [pc |-> "idle", kind |-> "none", query_id |-> NoneStr, timeout_secs |-> None,
     max_rows |-> None, max_cell_size |-> None,
     driver |-> "pending", nrows |-> 0, elapsed |-> FALSE, rx |-> "none",
     first |-> "none", userCancel |-> FALSE, outcome |-> NoOutcome]

\* Ghost: the first of {driver completion, deadline, cancel_query} a call has seen.
NoteFirst(cl, event) == IF cl.first = "none" THEN [cl EXCEPT !.first = event] ELSE cl

\* Ghost: some call registered under qid has neither returned nor been cancelled
\* by cancel_query.
InFlight(qid) ==
    \E c \in DOMAIN call :
        /\ call[c].pc = "running"
        /\ call[c].query_id = Some(qid)
        /\ ~call[c].userCancel

\* Entry of execute_query / execute_query_page up to the first suspension:
\* pool_manager.get(..)?, the timeout future, cancel_registry.register(qid).
QStart(c, kind, connection_id, query_id, timeout_secs, max_rows, max_cell_size) ==
    /\ call[c].pc = "idle"
    /\ kind = "execute_query_page" => max_rows = None
    /\ LET got == PoolLookup(pools, connection_id)
           started == [IdleCall EXCEPT !.pc = "running", !.kind = kind,
                           !.query_id = query_id, !.timeout_secs = timeout_secs,
                           !.max_rows = max_rows, !.max_cell_size = max_cell_size,
                           !.rx = IF query_id.some THEN "open" ELSE "none"]
       IN IF ~got.ok
          THEN /\ call' = [call EXCEPT ![c] =
                              [IdleCall EXCEPT !.pc = "returned", !.kind = kind,
                                  !.outcome = ErrOutcome(got.err, 0)]]
               /\ UNCHANGED cancelSlots
          ELSE IF query_id.some
          THEN /\ cancelSlots' = RegistryRegister(cancelSlots, query_id.v, c)
               /\ call' = [DropSender(call, cancelSlots[query_id.v]) EXCEPT ![c] = started]
          ELSE /\ call' = [call EXCEPT ![c] = started]
               /\ UNCHANGED cancelSlots
    /\ UNCHANGED << cancelRet, poolVars, txnVars, tunnelVars, extVars >>

\* The driver's execute_raw future becomes ready (Ok with n rows, or Err).
QDriverCompletes(c, ok, n) ==
    /\ call[c].pc = "running"
    /\ call[c].driver = "pending"
    /\ call' = [call EXCEPT ![c] =
                   NoteFirst([call[c] EXCEPT !.driver = IF ok THEN "ok" ELSE "err",
                                             !.nrows = IF ok THEN n ELSE 0],
                             "driver")]
    /\ UNCHANGED << cancelSlots, cancelRet, poolVars, txnVars, tunnelVars, extVars >>

\* The deadline of tokio::time::timeout(duration, ..) passes.
QDeadline(c) ==
    /\ call[c].pc = "running"
    /\ ~call[c].elapsed
    /\ call' = [call EXCEPT ![c] = NoteFirst([call[c] EXCEPT !.elapsed = TRUE], "deadline")]
    /\ UNCHANGED << cancelSlots, cancelRet, poolVars, txnVars, tunnelVars, extVars >>

\* cancel_query(query_id): Ok(cancel_registry.cancel(&query_id))
cancel_query(query_id) ==
    /\ LET r == RegistryCancel(cancelSlots, query_id)
           owner == cancelSlots[query_id]
       IN /\ cancelSlots' = r.slots
          /\ cancelRet' = [query_id |-> query_id, ret |-> r.ret,
                           inflight |-> InFlight(query_id)]
          /\ call' = IF r.ret
                     THEN [call EXCEPT ![owner] =
                              NoteFirst([call[owner] EXCEPT !.rx = "fired",
                                                            !.userCancel = TRUE],
                                        "cancel")]
                     ELSE call
    /\ UNCHANGED << poolVars, txnVars, tunnelVars, extVars >>

\* What the query_future arm yields: Timeout polls the driver future first,
\* then the deadline.
QueryFutureOutcome(cl) ==
    IF cl.driver = "ok"
    THEN OkOutcome(PostProcess(cl.kind, DriverResponse(cl.nrows),
                               cl.max_rows, cl.max_cell_size))
    ELSE IF cl.driver = "err" THEN ErrOutcome("Database", 0)
    ELSE ErrOutcome("QueryTimeout", EffectiveTimeout(cl.timeout_secs))

\* select! takes the `res = query_future` arm (or, without a query_id, the
\* plain await): cancel_registry.remove(qid), then the result is mapped.
QResolveResult(c) ==
    /\ call[c].pc = "running"
    /\ call[c].driver # "pending" \/ call[c].elapsed
    /\ LET qid == call[c].query_id
           done == [call[c] EXCEPT !.pc = "returned",
                                   !.outcome = QueryFutureOutcome(call[c])]
       IN IF qid.some
          THEN /\ cancelSlots' = RegistryRemove(cancelSlots, qid.v)
               /\ call' = [DropSender(call, cancelSlots[qid.v]) EXCEPT ![c] = done]
          ELSE /\ call' = [call EXCEPT ![c] = done]
               /\ UNCHANGED cancelSlots
    /\ UNCHANGED << cancelRet, poolVars, txnVars, tunnelVars, extVars >>

\* select! takes the `_ = cancel_rx` arm: the receiver resolved, by a fired
\* signal or by its sender having been dropped; return Err(QueryCancelled).
QResolveCancelled(c) ==
    /\ call[c].pc = "running"
    /\ call[c].rx \in {"fired", "closed"}
    /\ call' = [call EXCEPT ![c] = [call[c] EXCEPT !.pc = "returned",
                                       !.outcome = ErrOutcome("QueryCancelled", 0)]]
    /\ UNCHANGED << cancelSlots, cancelRet, poolVars, txnVars, tunnelVars, extVars >>

\* The front-end has consumed the result; the call slot is free again.
QAck(c) ==
    /\ call[c].pc = "returned"
    /\ call' = [call EXCEPT ![c] = IdleCall]
    /\ UNCHANGED << cancelSlots, cancelRet, poolVars, txnVars, tunnelVars, extVars >>

Kinds == {"execute_query", "execute_query_page"}

OptQueryIds == {NoneStr} \cup {Some(q) : q \in QueryIds}

\* Which command each concurrent call slot runs.
KindOf(c) == IF c = "A" THEN "execute_query" ELSE "execute_query_page"

\* Two concurrent calls (one of each command) racing with cancel_query, with
\* default timeout; responses pass through uncapped.
NextQuery ==
    \/ \E c \in Calls, id \in ConnIds, q \in OptQueryIds :
            QStart(c, KindOf(c), id, q, None, None, None)
    \/ \E c \in Calls, ok \in BOOLEAN : QDriverCompletes(c, ok, 1)
    \/ \E c \in Calls : QDeadline(c)
    \/ \E q \in QueryIds : cancel_query(q)
    \/ \E c \in Calls : QResolveResult(c)
    \/ \E c \in Calls : QResolveCancelled(c)
    \/ \E c \in Calls : QAck(c)

OptMaxRows == {None} \cup {Some(k) : k \in 0..MaxRowsArg}

\* Row counts a driver may return for a call: small ones, and one over the default cap.
RowCounts(cl) ==
    (0..MaxDriverRows) \cup
        (IF cl.max_rows = None /\ cl.max_cell_size = None
         THEN {DEFAULT_MAX_ROWS + 1} ELSE {})

\* One call at a time, with every row-cap and cell-size argument.
NextRows ==
    \/ \E k \in Kinds, q \in {NoneStr, Some("q1")}, t \in {None, Some(5)},
          mr \in OptMaxRows, mcs \in {None, Some(1), Some(2)} :
            QStart("A", k, "c1", q, t, mr, mcs)
    \/ \E ok \in BOOLEAN, n \in RowCounts(call["A"]) : QDriverCompletes("A", ok, n)
    \/ QDeadline("A")
    \/ cancel_query("q1")
    \/ QResolveResult("A")
    \/ QResolveCancelled("A")
    \/ QAck("A")

-----------------------------------------------------------------------------
(* Explicit transactions of PostgresDriver / MySqlDriver                     *)
(* (db/drivers/postgres.rs, db/drivers/mysql.rs; the two are line-for-line  *)
(* the same): `pool` and `txn_conn: Mutex<Option<PoolConnection>>`.         *)

NoTask == "nobody"
Conns  == 1..MaxConns

IdleTask == [pc |-> "idle", op |-> "none", res |-> "none", conn |-> 0]

\* Pool connections neither pinned nor checked out by a task.
FreeConns == Conns \ ({txn_conn} \cup {task[t].conn : t \in Tasks})

\* begin_transaction without its `if guard.is_some()` rejection
BeginNeverRejects(tc) == FALSE

\* begin_transaction: `if guard.is_some() { return Err("Transaction already active") }`
BeginRejects(tc) == tc # 0

\* execute_raw dropping the guard in both branches
ExecRawGuardDropped(t, tc) == NoTask

\* execute_raw: who holds the txn_conn mutex while the statement runs -- the
\* caller in the `Some(conn)` branch, nobody after `drop(guard)` in the other.
ExecRawGuard(t, tc) == IF tc # 0 THEN t ELSE NoTask

\* begin_transaction up to its first suspension: lock, reject if active.
BeginLock(t) ==
    /\ task[t].pc = "idle"
    /\ txnMutex = NoTask
    /\ IF BeginRejects(txn_conn)
       THEN /\ task' = [task EXCEPT ![t] = [IdleTask EXCEPT !.op = "begin",
                                               !.res = "TransactionAlreadyActive"]]
            /\ UNCHANGED txnMutex
       ELSE /\ task' = [task EXCEPT ![t] = [IdleTask EXCEPT !.pc = "begin_acquire",
                                               !.op = "begin"]]
            /\ txnMutex' = t
    /\ UNCHANGED << txn_conn, begun, poolVars, queryVars, tunnelVars, extVars >>

\* `self.pool.acquire().await?` under the lock: a connection, or an error.
BeginAcquire(t, ok) ==
    /\ task[t].pc = "begin_acquire"
    /\ IF ok
       THEN /\ FreeConns # {}
            /\ \E c \in FreeConns :
                 task' = [task EXCEPT ![t] = [@ EXCEPT !.pc = "begin_exec", !.conn = c]]
            /\ UNCHANGED txnMutex
       ELSE /\ task' = [task EXCEPT ![t] = [IdleTask EXCEPT !.op = "begin",
                                               !.res = "Database"]]
            /\ txnMutex' = NoTask
    /\ UNCHANGED << txn_conn, begun, poolVars, queryVars, tunnelVars, extVars >>

\* `sqlx::query("BEGIN").execute(&mut *conn).await?; *guard = Some(conn)`
BeginExec(t, ok) ==
    /\ task[t].pc = "begin_exec"
    /\ IF ok
       THEN /\ txn_conn' = task[t].conn
            /\ begun' = begun \cup {task[t].conn}
            /\ task' = [task EXCEPT ![t] = [IdleTask EXCEPT !.op = "begin", !.res = "Ok"]]
       ELSE /\ task' = [task EXCEPT ![t] = [IdleTask EXCEPT !.op = "begin",
                                               !.res = "Database"]]
            /\ UNCHANGED << txn_conn, begun >>
    /\ txnMutex' = NoTask
    /\ UNCHANGED << poolVars, queryVars, tunnelVars, extVars >>

\* commit_transaction / rollback_transaction up to the first suspension:
\* lock, fail with "No active transaction" when txn_conn is None.
EndLock(t, op) ==
    /\ task[t].pc = "idle"
    /\ txnMutex = NoTask
    /\ IF txn_conn = 0
       THEN /\ task' = [task EXCEPT ![t] = [IdleTask EXCEPT !.op = op,
                                               !.res = "NoActiveTransaction"]]
            /\ UNCHANGED txnMutex
       ELSE /\ task' = [task EXCEPT ![t] = [IdleTask EXCEPT !.pc = "end_exec", !.op = op]]
            /\ txnMutex' = t
    /\ UNCHANGED << txn_conn, begun, poolVars, queryVars, tunnelVars, extVars >>

\* `sqlx::query("COMMIT" | "ROLLBACK").execute(&mut **conn).await?; *guard = None`
EndExec(t, ok) ==
    /\ task[t].pc = "end_exec"
    /\ IF ok
       THEN /\ begun' = begun \ {txn_conn}
            /\ txn_conn' = 0
            /\ task' = [task EXCEPT ![t] = [IdleTask EXCEPT !.op = task[t].op, !.res = "Ok"]]
       ELSE /\ task' = [task EXCEPT ![t] = [IdleTask EXCEPT !.op = task[t].op,
                                               !.res = "Database"]]
            /\ UNCHANGED << txn_conn, begun >>
    /\ txnMutex' = NoTask
    /\ UNCHANGED << poolVars, queryVars, tunnelVars, extVars >>

\* in_transaction: lock, Ok(guard.is_some())
InTransaction(t) ==
    /\ task[t].pc = "idle"
    /\ txnMutex = NoTask
    /\ task' = [task EXCEPT ![t] = [IdleTask EXCEPT !.op = "in_transaction",
                                       !.res = IF txn_conn # 0 THEN "true" ELSE "false"]]
    /\ UNCHANGED << txn_conn, txnMutex, begun, poolVars, queryVars, tunnelVars, extVars >>

\* execute_raw up to its first suspension: lock, then either run on the pinned
\* connection under the guard or drop the guard and go to the pool.
ExecLock(t) ==
    /\ task[t].pc = "idle"
    /\ txnMutex = NoTask
    /\ txnMutex' = ExecRawGuard(t, txn_conn)
    /\ task' = [task EXCEPT ![t] =
                   IF txn_conn # 0
                   THEN [IdleTask EXCEPT !.pc = "exec_pinned", !.op = "execute_raw",
                                         !.conn = 0]
                   ELSE [IdleTask EXCEPT !.pc = "exec_pool_wait", !.op = "execute_raw"]]
    /\ UNCHANGED << txn_conn, begun, poolVars, queryVars, tunnelVars, extVars >>

\* execute_on(&self.pool, ..): the pool hands out a connection, or the acquire fails.
ExecPoolAcquire(t, ok) ==
    /\ task[t].pc = "exec_pool_wait"
    /\ IF ok
       THEN /\ FreeConns # {}
            /\ \E c \in FreeConns :
                 task' = [task EXCEPT ![t] = [@ EXCEPT !.pc = "exec_pool", !.conn = c]]
       ELSE task' = [task EXCEPT ![t] = [IdleTask EXCEPT !.op = "execute_raw",
                                            !.res = "Database"]]
    /\ UNCHANGED << txn_conn, txnMutex, begun, poolVars, queryVars, tunnelVars, extVars >>

\* The statement finishes (Ok or Err); the guard or the pool connection is released.
ExecDone(t, ok) ==
    /\ task[t].pc \in {"exec_pinned", "exec_pool"}
    /\ task' = [task EXCEPT ![t] = [IdleTask EXCEPT !.op = "execute_raw",
                                       !.res = IF ok THEN "Ok" ELSE "Database"]]
    /\ txnMutex' = IF txnMutex = t THEN NoTask ELSE txnMutex
    /\ UNCHANGED << txn_conn, begun, poolVars, queryVars, tunnelVars, extVars >>

\* The brokerage drops the execute_raw future (timeout or cancel arm won):
\* its guard and its pool connection go with it.
ExecDropped(t) ==
    /\ task[t].pc \in {"exec_pinned", "exec_pool_wait", "exec_pool"}
    /\ task' = [task EXCEPT ![t] = [IdleTask EXCEPT !.op = "execute_raw",
                                       !.res = "dropped"]]
    /\ txnMutex' = IF txnMutex = t THEN NoTask ELSE txnMutex
    /\ UNCHANGED << txn_conn, begun, poolVars, queryVars, tunnelVars, extVars >>

NextTxn ==
    \/ \E t \in Tasks : BeginLock(t)
    \/ \E t \in Tasks, ok \in BOOLEAN : BeginAcquire(t, ok)
    \/ \E t \in Tasks, ok \in BOOLEAN : BeginExec(t, ok)
    \/ \E t \in Tasks, op \in {"commit", "rollback"} : EndLock(t, op)
    \/ \E t \in Tasks, ok \in BOOLEAN : EndExec(t, ok)
    \/ \E t \in Tasks : InTransaction(t)
    \/ \E t \in Tasks : ExecLock(t)
    \/ \E t \in Tasks, ok \in BOOLEAN : ExecPoolAcquire(t, ok)
    \/ \E t \in Tasks, ok \in BOOLEAN : ExecDone(t, ok)
    \/ \E t \in Tasks : ExecDropped(t)

-----------------------------------------------------------------------------
(* SSH tunnel manager (db/tunnel.rs) *)

Ports == 1..NumPorts          \* the ephemeral ports 127.0.0.1:0 can resolve to
FwdIds == 1..MaxFwd           \* task slots tokio::spawn places forwarders in

LOCALHOST == "127.0.0.1"

\* struct SshTunnel { local_port, task_handle }, and the absent map entry
NoTunnel == [present |-> FALSE, local_port |-> 0, task_handle |-> 0]
SshTunnel(local_port, task_handle) ==
    [present |-> TRUE, local_port |-> local_port, task_handle |-> task_handle]

NoFwd == [state |-> "unused", port |-> 0]

\* ConnectionConfig, cut down to the fields ensure_tunnel reads or writes
\* (models/connection.rs); the key path and the passwords are kept as
\* present / absent.
Config(id, ssh_enabled, ssh_host, ssh_user, ssh_key_path, ssh_password) ==
    [id |-> id, host |-> Some("db.internal"), port |-> Some(5432),
     ssh_enabled |-> ssh_enabled, ssh_host |-> ssh_host, ssh_user |-> ssh_user,
     ssh_key_path |-> ssh_key_path, ssh_password |-> ssh_password]

NoConfig == Config("none", FALSE, NoneStr, NoneStr, FALSE, FALSE)

\* The configurations callers pass in: SSH off; SSH on with a password, with
\* a key only, with no credentials; SSH on without host, without user.
Configs ==
    { Config("c1", FALSE, NoneStr, NoneStr, FALSE, FALSE),
      Config("c1", TRUE, Some("bastion"), Some("ops"), FALSE, TRUE),
      Config("c2", TRUE, Some("bastion"), Some("ops"), TRUE, FALSE),
      Config("c2", TRUE, Some("bastion"), Some("ops"), FALSE, FALSE),
      Config("c1", TRUE, NoneStr, Some("ops"), FALSE, TRUE),
      Config("c2", TRUE, Some("bastion"), NoneStr, FALSE, TRUE) }

\* Result<ConnectionConfig, AppError> of ensure_tunnel; reused is a ghost.
OkConfig(cfg, reused) == [ok |-> TRUE, err |-> "none", cfg |-> cfg, reused |-> reused]
ErrSshTunnel == [ok |-> FALSE, err |-> "SshTunnel", cfg |-> NoConfig, reused |-> FALSE]

NoReturn == [op |-> "none", cfg |-> NoConfig, res |-> OkConfig(NoConfig, FALSE)]

IdleCaller == [pc |-> "idle", cfg |-> NoConfig, port |-> 0, task_handle |-> 0]

\* Ports a live listener is bound to.
BoundPorts == {fwd[k].port : k \in {j \in FwdIds : fwd[j].state = "running"}}

\* Somebody still holds the JoinHandle of the task in slot k.
HandleHeld(k) ==
    \/ \E id \in ConnIds : tunnels[id].present /\ tunnels[id].task_handle = k
    \/ \E u \in Callers : caller[u].pc = "store" /\ caller[u].task_handle = k

\* Slots a spawn can use. A slot is given back once its task has ended and
\* its JoinHandle has been dropped.
FreeSlots == {k \in FwdIds : fwd[k].state = "unused"}

\* Dropping the JoinHandle held in a map entry: a task that is still running
\* is detached and runs on, one that has ended gives back its slot.
DropHandle(f, entry) ==
    IF entry.present /\ f[entry.task_handle].state = "finished"
    THEN [f EXCEPT ![entry.task_handle] = NoFwd]
    ELSE f

\* `modified` without the ssh_enabled reset
TunneledConfigStillSsh(cfg, local_port) ==
    [cfg EXCEPT !.host = Some(LOCALHOST), !.port = Some(local_port)]

\* let mut modified = config.clone(); host = 127.0.0.1; port = local_port;
\* ssh_enabled = false
TunneledConfig(cfg, local_port) ==
    [cfg EXCEPT !.host = Some(LOCALHOST), !.port = Some(local_port),
                !.ssh_enabled = FALSE]

\* the reuse check without the is_finished() test
TunnelIsPresent(entry) == entry.present

\* `if let Some(existing) = tunnels.get(&config.id) { if !existing.task_handle.is_finished()`
TunnelIsLive(entry) == entry.present /\ fwd[entry.task_handle].state = "running"

\* remove_tunnel leaving the map entry in place
TunnelsKeep(tn, id) == tn

\* tunnels.remove(connection_id)
TunnelsRemove(tn, id) == [tn EXCEPT ![id] = NoTunnel]

\* tunnel.task_handle.abort() on the removed entry, which is then dropped:
\* the accept loop stops, its listener is closed, the slot is given back.
Abort(f, entry) ==
    IF entry.present THEN [f EXCEPT ![entry.task_handle] = NoFwd] ELSE f

Returns(op, cfg, res) == [op |-> op, cfg |-> cfg, res |-> res]

\* ensure_tunnel from its entry through the reuse check under the map lock.
EnsureEnterStep(u, cfg) ==
    /\ caller[u].pc = "idle"
    /\ LET entry == tunnels[cfg.id] IN
       IF ~cfg.ssh_enabled
       THEN /\ tunnelRet' = Returns("ensure_tunnel", cfg, OkConfig(cfg, FALSE))
            /\ UNCHANGED caller
       ELSE IF ~cfg.ssh_host.some \/ ~cfg.ssh_user.some
       THEN /\ tunnelRet' = Returns("ensure_tunnel", cfg, ErrSshTunnel)
            /\ UNCHANGED caller
       ELSE IF TunnelIsLive(entry)
       THEN /\ tunnelRet' = Returns("ensure_tunnel", cfg,
                                    OkConfig(TunneledConfig(cfg, entry.local_port), TRUE))
            /\ UNCHANGED caller
       ELSE /\ caller' = [caller EXCEPT ![u] = [IdleCaller EXCEPT !.pc = "establish", !.cfg = cfg]]
            /\ UNCHANGED tunnelRet
    /\ UNCHANGED << tunnels, fwd >>

EnsureEnter(u, cfg) ==
    /\ EnsureEnterStep(u, cfg)
    /\ UNCHANGED << poolVars, queryVars, txnVars, extVars >>

\* The outcome of the authentication block: key first, password as the
\* fallback of a key that does not load. key_loads and answer are what the
\* key file and the server do: answer is "true", "false" or "error".
AuthOutcome(cfg, key_loads, answer) ==
    IF cfg.ssh_key_path /\ key_loads THEN answer
    ELSE IF cfg.ssh_key_path /\ ~cfg.ssh_password THEN "error"
    ELSE IF cfg.ssh_password THEN answer
    ELSE "error"

\* Between the two critical sections: TcpListener::bind("127.0.0.1:0") on a
\* port no listener holds, client::connect, authentication, tokio::spawn of
\* the accept loop (which takes the listener). Any failure returns SshTunnel
\* and drops the listener.
EnsureEstablishStep(u, env) ==
    /\ caller[u].pc = "establish"
    /\ IF /\ env.bind_ok /\ Ports \ BoundPorts # {}
          /\ env.connect_ok
          /\ AuthOutcome(caller[u].cfg, env.key_loads, env.answer) = "true"
       THEN /\ FreeSlots # {}
            /\ \E p \in Ports \ BoundPorts :
                 LET k == CHOOSE j \in FreeSlots : \A i \in FreeSlots : j <= i
                 IN /\ fwd' = [fwd EXCEPT ![k] = [state |-> "running", port |-> p]]
                    /\ caller' = [caller EXCEPT ![u] = [@ EXCEPT !.pc = "store", !.port = p,
                                                                 !.task_handle = k]]
            /\ UNCHANGED tunnelRet
       ELSE /\ caller' = [caller EXCEPT ![u] = IdleCaller]
            /\ tunnelRet' = Returns("ensure_tunnel", caller[u].cfg, ErrSshTunnel)
            /\ UNCHANGED fwd
    /\ UNCHANGED tunnels

EnsureEstablish(u, env) ==
    /\ EnsureEstablishStep(u, env)
    /\ UNCHANGED << poolVars, queryVars, txnVars, extVars >>

\* tunnels.insert(id, SshTunnel { local_port, task_handle }) under the map
\* lock (a replaced entry is dropped, and its JoinHandle with it), then
\* Ok(modified).
EnsureStoreStep(u) ==
    /\ caller[u].pc = "store"
    /\ fwd' = DropHandle(fwd, tunnels[caller[u].cfg.id])
    /\ tunnels' = [tunnels EXCEPT ![caller[u].cfg.id] =
                      SshTunnel(caller[u].port, caller[u].task_handle)]
    /\ caller' = [caller EXCEPT ![u] = IdleCaller]
    /\ tunnelRet' = Returns("ensure_tunnel", caller[u].cfg,
                            OkConfig(TunneledConfig(caller[u].cfg, caller[u].port), FALSE))

EnsureStore(u) ==
    /\ EnsureStoreStep(u)
    /\ UNCHANGED << poolVars, queryVars, txnVars, extVars >>

\* remove_tunnel(connection_id)
RemoveTunnelStep(u, id) ==
    /\ caller[u].pc = "idle"
    /\ tunnels' = TunnelsRemove(tunnels, id)
    /\ fwd' = Abort(fwd, tunnels[id])
    /\ tunnelRet' = Returns("remove_tunnel", [NoConfig EXCEPT !.id = id],
                            OkConfig(NoConfig, FALSE))
    /\ UNCHANGED caller

remove_tunnel(u, id) ==
    /\ RemoveTunnelStep(u, id)
    /\ UNCHANGED << poolVars, queryVars, txnVars, extVars >>

\* listener.accept() fails inside the loop: `break`, the task finishes and
\* its listener is closed.
FwdAcceptError(k) ==
    /\ fwd[k].state = "running"
    /\ fwd' = [fwd EXCEPT ![k] = IF HandleHeld(k) THEN [state |-> "finished", port |-> 0]
                                 ELSE NoFwd]
    /\ UNCHANGED << tunnels, caller, tunnelRet, poolVars, queryVars, txnVars, extVars >>

\* What the outside world does to one establishment: the bind fails, the
\* SSH connect fails, or both succeed and authentication runs.
EstablishEnvs ==
    { [bind_ok |-> FALSE, connect_ok |-> TRUE, key_loads |-> TRUE, answer |-> "true"],
      [bind_ok |-> TRUE, connect_ok |-> FALSE, key_loads |-> TRUE, answer |-> "true"] }
    \cup { [bind_ok |-> TRUE, connect_ok |-> TRUE, key_loads |-> kl, answer |-> a] :
                kl \in BOOLEAN, a \in {"true", "false", "error"} }

NextTunnel ==
    \/ \E u \in Callers, cfg \in Configs : EnsureEnter(u, cfg)
    \/ \E u \in Callers, env \in EstablishEnvs : EnsureEstablish(u, env)
    \/ \E u \in Callers : EnsureStore(u)
    \/ \E u \in Callers, id \in ConnIds : remove_tunnel(u, id)
    \/ \E k \in FwdIds : FwdAcceptError(k)

-----------------------------------------------------------------------------
(* Strings: a String is the sequence of its characters *)

WHITESPACE == {" ", "\n"}

LowerCase == << "a", "b", "c", "d", "e", "f", "g", "h", "i", "j", "k", "l", "m", "n", "o", "p", "q", "r", "s", "t", "u", "v", "w", "x", "y", "z" >>
UpperCase == << "A", "B", "C", "D", "E", "F", "G", "H", "I", "J", "K", "L", "M", "N", "O", "P", "Q", "R", "S", "T", "U", "V", "W", "X", "Y", "Z" >>
Digits    == << "0", "1", "2", "3", "4", "5", "6", "7", "8", "9" >>

\* char::to_uppercase on the characters that occur here.
to_uppercase_char(c) ==
    IF \E i \in 1..Len(LowerCase) : LowerCase[i] = c
    THEN UpperCase[CHOOSE i \in 1..Len(LowerCase) : LowerCase[i] = c]
    ELSE c

to_uppercase(s) == [i \in 1..Len(s) |-> to_uppercase_char(s[i])]

RECURSIVE trim_start(_)
trim_start(s) ==
    IF s # << >> /\ Head(s) \in WHITESPACE THEN trim_start(Tail(s)) ELSE s

RECURSIVE trim_end(_)
trim_end(s) ==
    IF s # << >> /\ s[Len(s)] \in WHITESPACE
    THEN trim_end(SubSeq(s, 1, Len(s) - 1)) ELSE s

trim(s) == trim_end(trim_start(s))

RECURSIVE trim_end_matches(_, _)
trim_end_matches(s, ch) ==
    IF s # << >> /\ s[Len(s)] = ch
    THEN trim_end_matches(SubSeq(s, 1, Len(s) - 1), ch) ELSE s

starts_with(s, p) == Len(s) >= Len(p) /\ SubSeq(s, 1, Len(p)) = p

contains(s, p) == \E i \in 0..(Len(s) - Len(p)) : SubSeq(s, i + 1, i + Len(p)) = p

\* str::replace(from, to) for a one-character pattern.
RECURSIVE replace(_, _, _)
replace(s, from, to) ==
    IF s = << >> THEN << >>
    ELSE (IF Head(s) = from THEN to ELSE << Head(s) >>) \o replace(Tail(s), from, to)

\* Vec<String>::join(sep)
RECURSIVE join(_, _)
join(parts, sep) ==
    IF parts = << >> THEN << >>
    ELSE IF Len(parts) = 1 THEN parts[1]
    ELSE parts[1] \o sep \o join(Tail(parts), sep)

\* Display of an i64, as format!("{}", n) renders it.
RECURSIVE to_string(_)
to_string(n) ==
    IF n < 0 THEN << "-" >> \o to_string(0 - n)
    ELSE IF n < 10 THEN << Digits[n + 1] >>
    ELSE to_string(n \div 10) \o << Digits[(n % 10) + 1] >>

-----------------------------------------------------------------------------
(* Pagination of a SQL body: commands/query.rs, commands/schema.rs *)

is_paginatable_query(sql) ==
    LET trimmed == trim(sql)
        upper   == to_uppercase(trimmed)
    IN \/ starts_with(upper, << "S", "E", "L", "E", "C", "T" >>)
       \/ starts_with(upper, << "W", "I", "T", "H" >>)
       \/ starts_with(upper, << "T", "A", "B", "L", "E" >>)
       \/ starts_with(upper, << "V", "A", "L", "U", "E", "S" >>)

\* wrap_paginated the way a version that forgets to trim would do it
wrap_paginatedUntrimmed(sql, limit, offset, dialect) ==
    IF dialect = "mssql"
    THEN IF contains(to_uppercase(sql), << "O", "R", "D", "E", "R", " ", "B", "Y" >>)
         THEN sql \o << " ", "O", "F", "F", "S", "E", "T", " " >> \o to_string(offset) \o << " ", "R", "O", "W", "S", " ", "F", "E", "T", "C", "H", " ", "N", "E", "X", "T", " " >>
                  \o to_string(limit) \o << " ", "R", "O", "W", "S", " ", "O", "N", "L", "Y" >>
         ELSE sql \o << " ", "O", "R", "D", "E", "R", " ", "B", "Y", " ", "(", "S", "E", "L", "E", "C", "T", " ", "N", "U", "L", "L", ")", " ", "O", "F", "F", "S", "E", "T", " " >> \o to_string(offset)
                  \o << " ", "R", "O", "W", "S", " ", "F", "E", "T", "C", "H", " ", "N", "E", "X", "T", " " >> \o to_string(limit) \o << " ", "R", "O", "W", "S", " ", "O", "N", "L", "Y" >>
    ELSE << "S", "E", "L", "E", "C", "T", " ", "*", " ", "F", "R", "O", "M", " ", "(" >> \o sql \o << ")", " ", "A", "S", " ", "_", "d", "f", "_", "p", "a", "g", "e", " ", "L", "I", "M", "I", "T", " " >> \o to_string(limit)
             \o << " ", "O", "F", "F", "S", "E", "T", " " >> \o to_string(offset)

wrap_paginated(sql, limit, offset, dialect) ==
    LET trimmed == trim_end_matches(trim(sql), ";")
    IN IF dialect = "mssql"
       THEN LET upper == to_uppercase(trimmed)
            IN IF contains(upper, << "O", "R", "D", "E", "R", " ", "B", "Y" >>)
               THEN trimmed \o << " ", "O", "F", "F", "S", "E", "T", " " >> \o to_string(offset) \o << " ", "R", "O", "W", "S", " ", "F", "E", "T", "C", "H", " ", "N", "E", "X", "T", " " >>
                        \o to_string(limit) \o << " ", "R", "O", "W", "S", " ", "O", "N", "L", "Y" >>
               ELSE trimmed \o << " ", "O", "R", "D", "E", "R", " ", "B", "Y", " ", "(", "S", "E", "L", "E", "C", "T", " ", "N", "U", "L", "L", ")", " ", "O", "F", "F", "S", "E", "T", " " >> \o to_string(offset)
                        \o << " ", "R", "O", "W", "S", " ", "F", "E", "T", "C", "H", " ", "N", "E", "X", "T", " " >> \o to_string(limit) \o << " ", "R", "O", "W", "S", " ", "O", "N", "L", "Y" >>
       ELSE << "S", "E", "L", "E", "C", "T", " ", "*", " ", "F", "R", "O", "M", " ", "(" >> \o trimmed \o << ")", " ", "A", "S", " ", "_", "d", "f", "_", "p", "a", "g", "e", " ", "L", "I", "M", "I", "T", " " >> \o to_string(limit)
                \o << " ", "O", "F", "F", "S", "E", "T", " " >> \o to_string(offset)

\* Every category quotes with double quotes, doubling the embedded ones.
quote_ident(name, category) == << "\"" >> \o replace(name, "\"", << "\"", "\"" >>) \o << "\"" >>

SortColumn(column, direction) == [column |-> column, direction |-> direction]

build_order_by(sorts, category) ==
    IF sorts = << >> THEN << >>
    ELSE LET clauses == [i \in 1..Len(sorts) |->
                            quote_ident(sorts[i].column, category) \o << " " >> \o
                            (IF sorts[i].direction = << "D", "E", "S", "C" >> THEN << "D", "E", "S", "C" >> ELSE << "A", "S", "C" >>)]
         IN << " ", "O", "R", "D", "E", "R", " ", "B", "Y", " " >> \o join(clauses, << ",", " " >>)

\* Option<Vec<SortColumn>>
NoSorts == [some |-> FALSE, v |-> << >>]
SomeSorts(sorts) == [some |-> TRUE, v |-> sorts]

\* The statement execute_query_page hands to the driver.
paginated_sql(sql, limit, offset, sort_columns, dialect, category) ==
    IF is_paginatable_query(sql)
    THEN IF sort_columns.some /\ sort_columns.v # << >>
         THEN LET order_clause == build_order_by(sort_columns.v, category)
                  trimmed      == trim_end_matches(trim(sql), ";")
                  with_order   == trimmed \o order_clause
              IN wrap_paginated(with_order, limit, offset, dialect)
         ELSE wrap_paginated(sql, limit, offset, dialect)
    ELSE sql

\* The statement count_query_rows hands to the driver.
count_sql(sql) ==
    LET trimmed == trim_end_matches(trim(sql), ";")
    IN << "S", "E", "L", "E", "C", "T", " ", "C", "O", "U", "N", "T", "(", "*", ")", " ", "A", "S", " ", "_", "d", "f", "_", "c", "o", "u", "n", "t", " ", "F", "R", "O", "M", " ", "(" >> \o trimmed \o << ")", " ", "A", "S", " ", "_", "d", "f", "_", "c", "n", "t" >>

-----------------------------------------------------------------------------
(* WHERE clauses: db/escape.rs, commands/schema.rs *)

\* escape_char the way a version that copies the backslash would do it
escape_charPlainBackslash(ch) ==
    IF ch = "'" THEN << "'", "'" >>
    ELSE IF ch = "NUL" THEN << "\\", "0" >>
    ELSE IF ch = "\n" THEN << "\\", "n" >>
    ELSE IF ch = "\r" THEN << "\\", "r" >>
    ELSE IF ch = "BS" THEN << "\\", "b" >>
    ELSE IF ch = "SUB" THEN << "\\", "Z" >>
    ELSE << ch >>

\* The characters NUL, backspace and SUB are written "NUL", "BS", "SUB".
escape_char(ch) ==
    IF ch = "'" THEN << "'", "'" >>
    ELSE IF ch = "\\" THEN << "\\", "\\" >>
    ELSE IF ch = "NUL" THEN << "\\", "0" >>
    ELSE IF ch = "\n" THEN << "\\", "n" >>
    ELSE IF ch = "\r" THEN << "\\", "r" >>
    ELSE IF ch = "BS" THEN << "\\", "b" >>
    ELSE IF ch = "SUB" THEN << "\\", "Z" >>
    ELSE << ch >>

RECURSIVE escape_sql_literal(_)
escape_sql_literal(s) ==
    IF s = << >> THEN << >> ELSE escape_char(Head(s)) \o escape_sql_literal(Tail(s))

FilterCondition(column, operator, value) ==
    [column |-> column, operator |-> operator, value |-> value]

\* Option<String>: the clause of one filter.
NoClause == [some |-> FALSE, v |-> << >>]
SomeClause(s) == [some |-> TRUE, v |-> s]

\* filter_clause the way a version that splices the raw value would do it
filter_clauseUnescaped(f, category) ==
    LET col == quote_ident(f.column, category)
        op  == f.operator
    IN IF op = << "e", "q" >> THEN SomeClause(col \o << " ", "=", " ", "'" >> \o f.value \o << "'" >>)
       ELSE IF op = << "n", "e", "q" >> THEN SomeClause(col \o << " ", "!", "=", " ", "'" >> \o f.value \o << "'" >>)
       ELSE IF op = << "g", "t" >> THEN SomeClause(col \o << " ", ">", " ", "'" >> \o f.value \o << "'" >>)
       ELSE IF op = << "g", "t", "e" >> THEN SomeClause(col \o << " ", ">", "=", " ", "'" >> \o f.value \o << "'" >>)
       ELSE IF op = << "l", "t" >> THEN SomeClause(col \o << " ", "<", " ", "'" >> \o f.value \o << "'" >>)
       ELSE IF op = << "l", "t", "e" >> THEN SomeClause(col \o << " ", "<", "=", " ", "'" >> \o f.value \o << "'" >>)
       ELSE IF op = << "c", "o", "n", "t", "a", "i", "n", "s" >>
            THEN SomeClause(col \o << " ", "L", "I", "K", "E", " ", "'", "%" >> \o replace(f.value, "%", << "\\", "%" >>) \o << "%", "'" >>)
       ELSE IF op = << "s", "t", "a", "r", "t", "s", "_", "w", "i", "t", "h" >>
            THEN SomeClause(col \o << " ", "L", "I", "K", "E", " ", "'" >> \o replace(f.value, "%", << "\\", "%" >>) \o << "%", "'" >>)
       ELSE IF op = << "i", "s", "_", "n", "u", "l", "l" >> THEN SomeClause(col \o << " ", "I", "S", " ", "N", "U", "L", "L" >>)
       ELSE IF op = << "i", "s", "_", "n", "o", "t", "_", "n", "u", "l", "l" >> THEN SomeClause(col \o << " ", "I", "S", " ", "N", "O", "T", " ", "N", "U", "L", "L" >>)
       ELSE NoClause

\* The closure passed to filter_map in build_where_clause.
filter_clause(f, category) ==
    LET col == quote_ident(f.column, category)
        op  == f.operator
        lit == escape_sql_literal(f.value)
    IN IF op = << "e", "q" >> THEN SomeClause(col \o << " ", "=", " ", "'" >> \o lit \o << "'" >>)
       ELSE IF op = << "n", "e", "q" >> THEN SomeClause(col \o << " ", "!", "=", " ", "'" >> \o lit \o << "'" >>)
       ELSE IF op = << "g", "t" >> THEN SomeClause(col \o << " ", ">", " ", "'" >> \o lit \o << "'" >>)
       ELSE IF op = << "g", "t", "e" >> THEN SomeClause(col \o << " ", ">", "=", " ", "'" >> \o lit \o << "'" >>)
       ELSE IF op = << "l", "t" >> THEN SomeClause(col \o << " ", "<", " ", "'" >> \o lit \o << "'" >>)
       ELSE IF op = << "l", "t", "e" >> THEN SomeClause(col \o << " ", "<", "=", " ", "'" >> \o lit \o << "'" >>)
       ELSE IF op = << "c", "o", "n", "t", "a", "i", "n", "s" >>
            THEN SomeClause(col \o << " ", "L", "I", "K", "E", " ", "'", "%" >> \o replace(lit, "%", << "\\", "%" >>) \o << "%", "'" >>)
       ELSE IF op = << "s", "t", "a", "r", "t", "s", "_", "w", "i", "t", "h" >>
            THEN SomeClause(col \o << " ", "L", "I", "K", "E", " ", "'" >> \o replace(lit, "%", << "\\", "%" >>) \o << "%", "'" >>)
       ELSE IF op = << "i", "s", "_", "n", "u", "l", "l" >> THEN SomeClause(col \o << " ", "I", "S", " ", "N", "U", "L", "L" >>)
       ELSE IF op = << "i", "s", "_", "n", "o", "t", "_", "n", "u", "l", "l" >> THEN SomeClause(col \o << " ", "I", "S", " ", "N", "O", "T", " ", "N", "U", "L", "L" >>)
       ELSE NoClause

\* Iterator::filter_map(..).collect()
RECURSIVE filter_map_clauses(_, _)
filter_map_clauses(filters, category) ==
    IF filters = << >> THEN << >>
    ELSE LET c == filter_clause(Head(filters), category)
         IN (IF c.some THEN << c.v >> ELSE << >>)
                \o filter_map_clauses(Tail(filters), category)

build_where_clause(filters, category) ==
    IF filters = << >> THEN << >>
    ELSE LET conditions == filter_map_clauses(filters, category)
         IN IF conditions = << >> THEN << >>
            ELSE << " ", "W", "H", "E", "R", "E", " " >> \o join(conditions, << " ", "A", "N", "D", " " >>)

FilterOperators ==
    {<< "e", "q" >>, << "n", "e", "q" >>, << "g", "t" >>, << "g", "t", "e" >>, << "l", "t" >>, << "l", "t", "e" >>, << "c", "o", "n", "t", "a", "i", "n", "s" >>, << "s", "t", "a", "r", "t", "s", "_", "w", "i", "t", "h" >>,
     << "i", "s", "_", "n", "u", "l", "l" >>, << "i", "s", "_", "n", "o", "t", "_", "n", "u", "l", "l" >>, << "l", "i", "k", "e" >>, << "E", "Q" >>}

FilterValues == {<< "x" >>, << "i", "t", "'", "s" >>, << "5", "%", "\n", "\\" >>}

FilterInputs ==
    {FilterCondition(<< "a" >>, op, v) : op \in FilterOperators, v \in FilterValues}
        \cup {FilterCondition(<< "a", "\"", "b" >>, << "e", "q" >>, v) : v \in FilterValues}

FilterLists == UNION {[1..k -> FilterInputs] : k \in 0..MaxFilters}

InitWhere ==
    /\ fnArg \in {[fn |-> "build_where_clause", filters |-> fs] : fs \in FilterLists}
    /\ fnRes = [done |-> FALSE]

ApplyBuildWhereClause ==
    /\ fnArg.fn = "build_where_clause"
    /\ ~fnRes.done
    /\ fnRes' = [done |-> TRUE,
                 clause |-> build_where_clause(fnArg.filters, "Relational")]
    /\ UNCHANGED << fnArg, coreVars, notPure >>

NextWhere == ApplyBuildWhereClause

-----------------------------------------------------------------------------
(* Pure functions, each applied once to arguments drawn by Init *)

NullCell == [tag |-> "Null", val |-> 0, text |-> << >>,
             full_length |-> 0, preview_length |-> 0]

\* Strings of at most n characters of 1 or 2 UTF-8 bytes each.
Texts(n) == UNION {[1..k -> {1, 2}] : k \in 0..n}

\* Vec<u8> of at most n bytes.
Bytes(n) == UNION {[1..k -> {1}] : k \in 0..n}

\* The cells handed to truncate_large_values.
CellInputs ==
    {NullCell, IntCell(7)}
        \cup {TextCell(tag, 0, t) : tag \in {"Text", "Json", "Timestamp"}, t \in Texts(MaxChars)}
        \cup {TextCell("Binary", 0, b) : b \in Bytes(MaxChars)}
        \cup {[TextCell("LargeText", 0, << 1 >>) EXCEPT !.full_length = MaxChars + 1]}

InitCells ==
    /\ fnArg \in {[fn |-> "truncate_large_values", cell |-> c, max_cell_size |-> m] :
                     c \in CellInputs, m \in 0..MaxCellSize}
    /\ fnRes = [done |-> FALSE]

\* truncate_large_values(&mut response, max_cell_size) on a response of one
\* row holding an Int cell and the cell under test.
ApplyTruncate ==
    /\ fnArg.fn = "truncate_large_values"
    /\ ~fnRes.done
    /\ LET response == [NoResponse EXCEPT !.rows = << << IntCell(1), fnArg.cell >> >>,
                                          !.row_count = 1]
       IN fnRes' = [done |-> TRUE,
                    response |-> truncate_large_values(response, fnArg.max_cell_size)]
    /\ UNCHANGED << fnArg, coreVars, notPure >>

NextCells == ApplyTruncate

\* Statements handed to the pagination commands: optional leading
\* whitespace, a body, and a tail of semicolons and whitespace.
SqlLeads == {<< >>, << " " >>, <<"\n", " ">>}

SqlCores ==
    {<< >>, << "S", "E", "L", "E", "C", "T", " ", "1" >>, << "s", "e", "l", "e", "c", "t", " ", "a", " ", "f", "r", "o", "m", " ", "t", " ", "o", "r", "d", "e", "r", " ", "b", "y", " ", "a" >>, << "S", "e", "l", "e", "c", "t", " ", "b", " ", "F", "r", "o", "m", " ", "t", " ", "O", "r", "d", "e", "r", " ", "B", "y", " ", "b" >>,
     << "S", "E", "L", "E", "C", "T", "E", "D" >>, << "W", "I", "T", "H", " ", "c", " ", "A", "S", " ", "(", "S", "E", "L", "E", "C", "T", " ", "1", ")", " ", "S", "E", "L", "E", "C", "T", " ", "*", " ", "F", "R", "O", "M", " ", "c" >>, << "W", "I", "T", "H", "D", "R", "A", "W", " ", "5" >>, << "T", "A", "B", "L", "E", " ", "t" >>,
     << "v", "a", "l", "u", "e", "s", " ", "(", "1", ")" >>, << "I", "N", "S", "E", "R", "T", " ", "I", "N", "T", "O", " ", "t", " ", "V", "A", "L", "U", "E", "S", " ", "(", "1", ")" >>, << "U", "P", "D", "A", "T", "E", " ", "t", " ", "S", "E", "T", " ", "a", " ", "=", " ", "1" >>}

SqlTails == {<< >>, << ";" >>, << ";", ";" >>, << " ", ";" >>, << ";", " " >>, << ";", " ", ";" >>, << " " >>}

SqlInputs == {l \o c \o t : l \in SqlLeads, c \in SqlCores, t \in SqlTails}

PageArgs == {0, 1, MaxLimit}

Dialects == {"mssql", "postgres", "mysql"}

SortInputs ==
    {NoSorts, SomeSorts(<< >>),
     SomeSorts(<< SortColumn(<< "a" >>, << "D", "E", "S", "C" >>) >>),
     SomeSorts(<< SortColumn(<< "a", "\"", "b" >>, << "d", "e", "s", "c" >>), SortColumn(<< "c" >>, << "A", "S", "C" >>) >>)}

\* What the driver answers to the count statement.
CountOutcomes ==
    {[kind |-> "timeout"], [kind |-> "error"], [kind |-> "no_rows"],
     [kind |-> "Int", v |-> MaxLimit], [kind |-> "Float", v |-> MaxLimit],
     [kind |-> "Text", s |-> << "1", "2" >>], [kind |-> "Text", s |-> << "1", "x" >>],
     [kind |-> "Null"]}

InitPaging ==
    /\ fnArg \in
         {[fn |-> "wrap_paginated", sql |-> s, limit |-> m, offset |-> n, dialect |-> d] :
             s \in SqlInputs, m \in PageArgs, n \in PageArgs, d \in Dialects}
         \cup
         {[fn |-> "execute_query_page", sql |-> s, limit |-> m, offset |-> n,
           dialect |-> d, sort_columns |-> o] :
             s \in SqlInputs, m \in PageArgs, n \in PageArgs, d \in Dialects,
             o \in SortInputs}
         \cup
         {[fn |-> "count_query_rows", sql |-> s, connected |-> b, outcome |-> r] :
             s \in SqlInputs, b \in BOOLEAN, r \in CountOutcomes}
    /\ fnRes = [done |-> FALSE]

ApplyWrapPaginated ==
    /\ fnArg.fn = "wrap_paginated"
    /\ ~fnRes.done
    /\ fnRes' = [done |-> TRUE,
                 sql |-> wrap_paginated(fnArg.sql, fnArg.limit, fnArg.offset,
                                        fnArg.dialect)]
    /\ UNCHANGED << fnArg, coreVars, notPure >>

\* execute_query_page up to the call of the driver: `executed` is the
\* statement passed to execute_raw.
ApplyExecuteQueryPage ==
    /\ fnArg.fn = "execute_query_page"
    /\ ~fnRes.done
    /\ fnRes' = [done |-> TRUE,
                 executed |-> paginated_sql(fnArg.sql, fnArg.limit, fnArg.offset,
                                            fnArg.sort_columns, fnArg.dialect,
                                            "Relational")]
    /\ UNCHANGED << fnArg, coreVars, notPure >>

\* str::parse::<i64> on a string of decimal digits; -1 stands for Err.
RECURSIVE parse_i64(_)
parse_i64(s) ==
    IF s = << >> THEN -1
    ELSE LET last == s[Len(s)]
             d    == IF \E i \in 1..10 : Digits[i] = last
                     THEN (CHOOSE i \in 1..10 : Digits[i] = last) - 1 ELSE -1
             rest == IF Len(s) = 1 THEN 0 ELSE parse_i64(SubSeq(s, 1, Len(s) - 1))
         IN IF d < 0 \/ rest < 0 THEN -1 ELSE rest * 10 + d

CountOk(v, calls)  == [done |-> TRUE, ok |-> TRUE, err |-> "none", value |-> v,
                       driver_calls |-> calls]
CountErr(e, calls) == [done |-> TRUE, ok |-> FALSE, err |-> e, value |-> 0,
                       driver_calls |-> calls]

\* count_query_rows: `driver_calls` lists the statements passed to execute_raw.
ApplyCountQueryRows ==
    /\ fnArg.fn = "count_query_rows"
    /\ ~fnRes.done
    /\ LET r     == fnArg.outcome
           calls == << count_sql(fnArg.sql) >>
       IN fnRes' =
            IF ~fnArg.connected THEN CountErr("ConnectionNotFound", << >>)
            ELSE IF ~is_paginatable_query(fnArg.sql) THEN CountErr("InvalidConfig", << >>)
            ELSE IF r.kind = "timeout" THEN CountErr("QueryTimeout", calls)
            ELSE IF r.kind = "error" THEN CountErr("Database", calls)
            ELSE IF r.kind = "no_rows" THEN CountOk(0, calls)
            ELSE IF r.kind \in {"Int", "Float"} THEN CountOk(r.v, calls)
            ELSE IF r.kind = "Text"
                 THEN IF parse_i64(r.s) < 0 THEN CountErr("Database", calls)
                      ELSE CountOk(parse_i64(r.s), calls)
            ELSE CountOk(0, calls)
    /\ UNCHANGED << fnArg, coreVars, notPure >>

NextPaging ==
    \/ ApplyWrapPaginated
    \/ ApplyExecuteQueryPage
    \/ ApplyCountQueryRows

-----------------------------------------------------------------------------
(* The OS keychain: db/keychain.rs *)

SERVICE_NAME        == "com.queryark.database-ide"
LEGACY_SERVICE_NAME == "com.dataforge.database-ide"
Services == {SERVICE_NAME, LEGACY_SERVICE_NAME}

KeychainConns == {"c1"}
SecretKeys    == {"password", "ssh_password"}
Secrets       == {"s1", "s2"}
NoSecret      == "none"

\* The keyring username of a secret: its parts, in order.
entry_username(connection_id, key) ==
    IF key = "password" THEN << connection_id >> ELSE << connection_id, ":", key >>

Usernames == {entry_username(c, k) : c \in KeychainConns, k \in SecretKeys}

\* Option<String>
NoValue == [some |-> FALSE, v |-> NoSecret]
SomeValue(s) == [some |-> TRUE, v |-> s]

KeyReturn(op, username, ok, value, legacy, seq) ==
    [op |-> op, username |-> username, ok |-> ok, value |-> value,
     legacy_consulted |-> legacy, seq |-> seq]

\* Nothing is stored and no call has been made.
IdleKeychain ==
    /\ keyring = [s \in Services |-> [u \in Usernames |-> NoSecret]]
    /\ keyRet = KeyReturn("none", << >>, TRUE, NoValue, FALSE, 0)

\* The keychain as an installation of the earlier product name left it.
InitKeychain ==
    /\ keyring \in {[s \in Services |-> IF s = SERVICE_NAME
                                        THEN [u \in Usernames |-> NoSecret]
                                        ELSE legacy] :
                       legacy \in [Usernames -> Secrets \cup {NoSecret}]}
    /\ keyRet = KeyReturn("none", << >>, TRUE, NoValue, FALSE, 0)

\* What the platform answers to the keyring calls of one command: whether
\* Entry::new, get_password (FALSE: an error other than NoEntry),
\* set_password and delete_credential work, per service name.
KeyringEnvs ==
    [new_ok : BOOLEAN, get_ok : BOOLEAN, legacy_new_ok : BOOLEAN,
     legacy_get_ok : BOOLEAN, renew_ok : BOOLEAN, set_ok : BOOLEAN,
     delete_ok : BOOLEAN]

store_secret(connection_id, key, value, env) ==
    LET username == entry_username(connection_id, key)
        ok == env.new_ok /\ env.set_ok
    IN /\ keyring' = IF ok THEN [keyring EXCEPT ![SERVICE_NAME][username] = value]
                     ELSE keyring
       /\ keyRet' = KeyReturn("store_secret", username, ok, NoValue, FALSE,
                              1 - keyRet.seq)
       /\ UNCHANGED << coreVars, notKeychain >>

\* Lines 71-76 of get_secret: store under the new service name, delete the
\* legacy entry, ignoring the result of both.
Migrate(ring, username, val, env) ==
    LET stored == IF env.renew_ok /\ env.set_ok
                  THEN [ring EXCEPT ![SERVICE_NAME][username] = val] ELSE ring
    IN IF env.delete_ok
       THEN [stored EXCEPT ![LEGACY_SERVICE_NAME][username] = NoSecret] ELSE stored

get_secret(connection_id, key, env) ==
    LET username == entry_username(connection_id, key)
        current  == keyring[SERVICE_NAME][username]
        legacy   == keyring[LEGACY_SERVICE_NAME][username]
        Return(value, consulted) ==
            keyRet' = KeyReturn("get_secret", username, TRUE, value, consulted,
                                1 - keyRet.seq)
    IN /\ UNCHANGED << coreVars, notKeychain >>
       /\ IF ~env.new_ok THEN Return(NoValue, FALSE) /\ UNCHANGED keyring
          ELSE IF ~env.get_ok THEN Return(NoValue, FALSE) /\ UNCHANGED keyring
          ELSE IF current # NoSecret
               THEN Return(SomeValue(current), FALSE) /\ UNCHANGED keyring
          ELSE IF ~env.legacy_new_ok THEN Return(NoValue, FALSE) /\ UNCHANGED keyring
          ELSE IF ~env.legacy_get_ok \/ legacy = NoSecret
               THEN Return(NoValue, TRUE) /\ UNCHANGED keyring
          ELSE /\ Return(SomeValue(legacy), TRUE)
               /\ keyring' = Migrate(keyring, username, legacy, env)

delete_secret(connection_id, key, env) ==
    LET username == entry_username(connection_id, key)
        present  == keyring[SERVICE_NAME][username] # NoSecret
        ok       == env.new_ok /\ (~present \/ env.delete_ok)
    IN /\ keyring' = IF env.new_ok /\ present /\ env.delete_ok
                     THEN [keyring EXCEPT ![SERVICE_NAME][username] = NoSecret]
                     ELSE keyring
       /\ keyRet' = KeyReturn("delete_secret", username, ok, NoValue, FALSE,
                              1 - keyRet.seq)
       /\ UNCHANGED << coreVars, notKeychain >>

NextKeychain ==
    \/ \E c \in KeychainConns, k \in SecretKeys, s \in Secrets, env \in KeyringEnvs :
          store_secret(c, k, s, env)
    \/ \E c \in KeychainConns, k \in SecretKeys, env \in KeyringEnvs :
          get_secret(c, k, env)
    \/ \E c \in KeychainConns, k \in SecretKeys, env \in KeyringEnvs :
          delete_secret(c, k, env)

-----------------------------------------------------------------------------
(* Connection commands: commands/connection.rs *)

\* Every configuration here has use_keychain = false, for which
\* resolve_keychain_password returns at once.
IdleCmd == [op |-> "none", pc |-> "idle", cfg |-> NoConfig]

\* Result<_, AppError> of a command; `value` is the bool of test_connection,
\* `failure` a ghost naming what failed underneath ("none", "tunnel", "driver").
CmdReturn(op, id, ok, err, value, failure) ==
    [op |-> op, id |-> id, ok |-> ok, err |-> err, value |-> value,
     failure |-> failure]

NoCmdReturn == CmdReturn("none", "none", TRUE, "none", FALSE, "none")

IdleConn ==
    /\ cmd = [u \in Callers |-> IdleCmd]
    /\ connRet = NoCmdReturn

\* What follows `tunnel_manager.ensure_tunnel(&config).await ... ?` in
\* connect_db and test_connection, once the tunnel step of this transition
\* is taken: still establishing, returned Ok, or returned Err (propagated).
AfterEnsure(u, op, cfg) ==
    IF caller'[u].pc # "idle"
    THEN /\ cmd' = [cmd EXCEPT ![u] = [op |-> op, pc |-> "tunnel", cfg |-> cfg]]
         /\ UNCHANGED connRet
    ELSE IF tunnelRet'.res.ok
    THEN /\ cmd' = [cmd EXCEPT ![u] = [op |-> op, pc |-> "driver", cfg |-> cfg]]
         /\ UNCHANGED connRet
    ELSE /\ cmd' = [cmd EXCEPT ![u] = IdleCmd]
         /\ connRet' = CmdReturn(op, cfg.id, FALSE, tunnelRet'.res.err, FALSE, "tunnel")

\* connect_db / test_connection from entry into ensure_tunnel.
CmdStart(u, op, cfg) ==
    /\ cmd[u].pc = "idle"
    /\ EnsureEnterStep(u, cfg)
    /\ AfterEnsure(u, op, cfg)
    /\ UNCHANGED << poolVars, queryVars, txnVars, notConn >>

CmdEstablish(u, env) ==
    /\ cmd[u].pc = "tunnel"
    /\ EnsureEstablishStep(u, env)
    /\ AfterEnsure(u, cmd[u].op, cmd[u].cfg)
    /\ UNCHANGED << poolVars, queryVars, txnVars, notConn >>

CmdStore(u) ==
    /\ cmd[u].pc = "tunnel"
    /\ EnsureStoreStep(u)
    /\ AfterEnsure(u, cmd[u].op, cmd[u].cfg)
    /\ UNCHANGED << poolVars, queryVars, txnVars, notConn >>

\* connect_db after ensure_tunnel: create_driver_handle, then
\* pool_manager.add(id, handle) and Ok(id), or the driver's error.
ConnectDriver(u, driver_ok) ==
    /\ cmd[u].pc = "driver" /\ cmd[u].op = "connect_db"
    /\ LET id == cmd[u].cfg.id IN
        IF driver_ok
        THEN /\ pools' = PoolInsert(pools, id, ArcNew("Sql", 1))
             /\ connRet' = CmdReturn("connect_db", id, TRUE, "none", FALSE, "none")
        ELSE /\ UNCHANGED pools
             /\ connRet' = CmdReturn("connect_db", id, FALSE, "Connection", FALSE, "driver")
    /\ cmd' = [cmd EXCEPT ![u] = IdleCmd]
    /\ UNCHANGED << poolLog, poolRes, queryVars, txnVars, tunnelVars, notConn >>

\* test_connection after ensure_tunnel: create_driver_handle, the test
\* tunnel is removed when the configuration has SSH enabled, Ok(true) or
\* Ok(false).
TestDriver(u, driver_ok) ==
    /\ cmd[u].pc = "driver" /\ cmd[u].op = "test_connection"
    /\ IF cmd[u].cfg.ssh_enabled
       THEN RemoveTunnelStep(u, cmd[u].cfg.id)
       ELSE UNCHANGED tunnelVars
    /\ connRet' = CmdReturn("test_connection", cmd[u].cfg.id, TRUE, "none", driver_ok,
                            IF driver_ok THEN "none" ELSE "driver")
    /\ cmd' = [cmd EXCEPT ![u] = IdleCmd]
    /\ UNCHANGED << poolVars, queryVars, txnVars, notConn >>

\* disconnect_db: pool_manager.remove(&connection_id).await?
DisconnectPool(u, id) ==
    /\ cmd[u].pc = "idle"
    /\ IF PoolLookup(pools, id).ok
       THEN /\ pools' = PoolDelete(pools, id)
            /\ cmd' = [cmd EXCEPT ![u] = [op |-> "disconnect_db", pc |-> "untunnel",
                                          cfg |-> [NoConfig EXCEPT !.id = id]]]
            /\ UNCHANGED connRet
       ELSE /\ UNCHANGED << pools, cmd >>
            /\ connRet' = CmdReturn("disconnect_db", id, FALSE, "ConnectionNotFound",
                                    FALSE, "none")
    /\ UNCHANGED << poolLog, poolRes, queryVars, txnVars, tunnelVars, notConn >>

\* disconnect_db: tunnel_manager.remove_tunnel(&connection_id).await; Ok(())
DisconnectTunnel(u) ==
    /\ cmd[u].pc = "untunnel"
    /\ RemoveTunnelStep(u, cmd[u].cfg.id)
    /\ connRet' = CmdReturn("disconnect_db", cmd[u].cfg.id, TRUE, "none", FALSE, "none")
    /\ cmd' = [cmd EXCEPT ![u] = IdleCmd]
    /\ UNCHANGED << poolVars, queryVars, txnVars, notConn >>

\* Commands are issued one at a time: one caller runs them.
Commanders == {"u1"}

NextConn ==
    \/ \E u \in Commanders, op \in {"connect_db", "test_connection"}, cfg \in Configs :
          CmdStart(u, op, cfg)
    \/ \E u \in Commanders, env \in EstablishEnvs : CmdEstablish(u, env)
    \/ \E u \in Commanders : CmdStore(u)
    \/ \E u \in Commanders, ok \in BOOLEAN : ConnectDriver(u, ok)
    \/ \E u \in Commanders, ok \in BOOLEAN : TestDriver(u, ok)
    \/ \E u \in Commanders, id \in ConnIds : DisconnectPool(u, id)
    \/ \E u \in Commanders : DisconnectTunnel(u)
    \/ \E k \in FwdIds : FwdAcceptError(k)

-----------------------------------------------------------------------------
(* Full-table export: commands/export.rs, get_table_data of the drivers *)

PAGE_SIZE == 5000

\* Rows of a table are numbered from 1; a page is the run of rows from..to,
\* empty when to < from.
Rows(from, to) == [from |-> from, to |-> to]
RowCount(r) == IF r.to < r.from THEN 0 ELSE r.to - r.from + 1

\* Table sizes around the page boundaries.
TableSizes == {0, 1, PAGE_SIZE - 1, PAGE_SIZE, PAGE_SIZE + 1, 2 * PAGE_SIZE}

\* SqlDriver::get_table_data(schema, table, limit, offset) on a table of n
\* rows: "SELECT * ... LIMIT limit OFFSET offset" (Postgres and the other
\* engines with OFFSET), "SELECT * ... LIMIT limit" (Cassandra / ScyllaDB).
get_table_data(driver, n, limit, offset) ==
    IF driver = "cassandra"
    THEN Rows(1, Min(limit, n))
    ELSE Rows(offset + 1, Min(offset + limit, n))

\* What pool_manager.get(connection_id) answers: no entry, a handle that is
\* not Sql, or a Sql handle around one of the drivers.
ExportLookups == {"missing", "Document", "postgres", "cassandra"}
ExportFormats == {"csv", "json", "sql"}

ExportOk(count) == [ok |-> TRUE, err |-> "none", count |-> count]
ExportErr(e)    == [ok |-> FALSE, err |-> e, count |-> 0]

IdleExport ==
    exp = [pc |-> "idle", format |-> "none", driver |-> "none", n |-> 0,
           offset |-> 0, total |-> 0, written |-> << >>, requests |-> << >>,
           result |-> ExportOk(0)]

ExportDone(e, res) == [e EXCEPT !.pc = "done", !.result = res]

\* export_to_csv / export_to_json / export_to_sql with export_all = true, up
\* to the first get_table_data of stream_table_*.
ExportStart(format, args_ok, file_ok, lookup, n) ==
    /\ exp.pc \in {"idle", "done"}
    /\ LET e == [pc |-> "paging", format |-> format, driver |-> lookup, n |-> n,
                 offset |-> 0, total |-> 0, written |-> << >>, requests |-> << >>,
                 result |-> ExportOk(0)]
       IN exp' = IF ~args_ok THEN ExportDone(e, ExportErr("InvalidConfig"))
                 ELSE IF ~file_ok THEN ExportDone(e, ExportErr("Database"))
                 ELSE IF lookup = "missing"
                      THEN ExportDone(e, ExportErr("ConnectionNotFound"))
                 ELSE IF lookup = "Document"
                      THEN ExportDone(e, ExportErr("UnsupportedOperation"))
                 ELSE e
    /\ UNCHANGED << coreVars, notExport >>

\* One turn of the loop of stream_table_*: a page is requested at the
\* current offset and written; the loop ends on an empty or short page.
ExportPage(driver_ok, write_ok) ==
    /\ exp.pc = "paging"
    /\ Len(exp.requests) < MaxPages
    /\ LET asked == [exp EXCEPT !.requests = Append(@, exp.offset)]
           page  == get_table_data(exp.driver, exp.n, PAGE_SIZE, exp.offset)
           count == RowCount(page)
           wrote == [asked EXCEPT !.written = Append(@, page), !.total = @ + count]
       IN exp' = IF ~driver_ok THEN ExportDone(asked, ExportErr("Database"))
                 ELSE IF ~write_ok THEN ExportDone(asked, ExportErr("Database"))
                 ELSE IF count = 0 THEN ExportDone(asked, ExportOk(asked.total))
                 ELSE IF count < PAGE_SIZE THEN ExportDone(wrote, ExportOk(wrote.total))
                 ELSE [wrote EXCEPT !.offset = @ + PAGE_SIZE]
    /\ UNCHANGED << coreVars, notExport >>

NextExport ==
    \/ \E format \in ExportFormats, args_ok \in BOOLEAN, file_ok \in BOOLEAN,
          lookup \in ExportLookups, n \in TableSizes :
          ExportStart(format, args_ok, file_ok, lookup, n)
    \/ \E driver_ok \in BOOLEAN, write_ok \in BOOLEAN : ExportPage(driver_ok, write_ok)

-----------------------------------------------------------------------------
(* CSV import: commands/export.rs *)

MAX_IMPORT_ERRORS == 10

\* One item of rdr.records(): a parse error, or a record with its values;
\* `accepted` tells whether the database takes the row when it is inserted.
CsvRecord(parse_ok, values, accepted) ==
    [parse_ok |-> parse_ok, values |-> values, accepted |-> accepted]

FieldValues   == << "v1", "v2", "v3" >>
RefusedValues == << "bad", "v2", "v3" >>
ColumnNames   == << "x", "y", "z" >>

\* The reader is not flexible: every record that parses has the width of
\* the first one, any other is a parse error.
RecordKinds(width) ==
    {CsvRecord(TRUE, SubSeq(FieldValues, 1, width), TRUE),
     CsvRecord(TRUE, SubSeq(RefusedValues, 1, width), FALSE),
     CsvRecord(FALSE, << >>, FALSE)}

Repeat(x, n) == [i \in 1..n |-> x]

\* Files: three runs of records.
CsvFiles(width) ==
    {Repeat(k1, a) \o Repeat(k2, b) \o Repeat(k3, c) :
        k1 \in RecordKinds(width), k2 \in RecordKinds(width), k3 \in RecordKinds(width),
        a \in 0..MaxRun, b \in 0..2, c \in 0..1}

CsvFilesAll == UNION {CsvFiles(w) : w \in 1..3}

ImportError(row, kind) == [row |-> row, kind |-> kind]

\* errors.push without the cap of ten
PushErrorUncapped(errors, e) == Append(errors, e)

\* if errors.len() < 10 { errors.push(..) }
PushError(errors, e) ==
    IF Len(errors) < MAX_IMPORT_ERRORS THEN Append(errors, e) ELSE errors

ImportResult(rows_imported, rows_failed, errors, inserts) ==
    [ok |-> TRUE, err |-> "none", rows_imported |-> rows_imported,
     rows_failed |-> rows_failed, errors |-> errors, inserts |-> inserts]

ImportFailed(e) ==
    [ok |-> FALSE, err |-> e, rows_imported |-> 0, rows_failed |-> 0,
     errors |-> << >>, inserts |-> << >>]

\* The body of `for (i, record) in rdr.records().enumerate()` for the
\* record of index i (from 0); acc.inserts lists the insert_row calls.
ImportRecord(acc, col_names, i, record) ==
    IF record.parse_ok
    THEN LET n    == Min(Len(col_names), Len(record.values))
             cols == SubSeq(col_names, 1, n)
             vals == SubSeq(record.values, 1, n)
             called == [acc EXCEPT !.inserts = Append(@, [cols |-> cols, vals |-> vals])]
         IN IF record.accepted
            THEN [called EXCEPT !.rows_imported = @ + 1]
            ELSE [called EXCEPT !.rows_failed = @ + 1,
                                !.errors = PushError(@, ImportError(i + 1, "insert_row"))]
    ELSE [acc EXCEPT !.rows_failed = @ + 1,
                     !.errors = PushError(@, ImportError(i + 1, "CSV parse error"))]

RECURSIVE ImportLoop(_, _, _, _)
ImportLoop(acc, col_names, records, i) ==
    IF i >= Len(records) THEN acc
    ELSE ImportLoop(ImportRecord(acc, col_names, i, records[i + 1]), col_names,
                    records, i + 1)

import_csv(a) ==
    IF a.lookup = "missing" THEN ImportFailed("ConnectionNotFound")
    ELSE IF a.lookup # "Sql" THEN ImportFailed("UnsupportedOperation")
    ELSE IF ~a.file_ok THEN ImportFailed("Database")
    ELSE IF ~a.columns_ok THEN ImportFailed("Database")
    ELSE ImportLoop(ImportResult(0, 0, << >>, << >>), a.col_names, a.records, 0)

ImportArgs(lookup, file_ok, has_header, columns_ok, col_names, records) ==
    [fn |-> "import_csv", lookup |-> lookup, file_ok |-> file_ok,
     has_header |-> has_header, columns_ok |-> columns_ok,
     col_names |-> col_names, records |-> records]

\* With a header the column names are the header, of the width of the
\* records; without one they are the columns of the table, of any width.
InitImport ==
    /\ fnArg \in
         {ImportArgs("Sql", TRUE, TRUE, TRUE, SubSeq(ColumnNames, 1, w), f) :
             <<w, f>> \in {<<w, f>> \in (1..3) \X CsvFilesAll : f \in CsvFiles(w)}}
         \cup
         {ImportArgs("Sql", TRUE, FALSE, TRUE, SubSeq(ColumnNames, 1, c), f) :
             c \in 1..3, f \in CsvFilesAll}
         \cup
         {ImportArgs(l, fo, h, co, SubSeq(ColumnNames, 1, 2), << >>) :
             l \in {"missing", "Document", "Sql"}, fo \in BOOLEAN, h \in BOOLEAN,
             co \in BOOLEAN}
    /\ fnRes = [done |-> FALSE]

ApplyImportCsv ==
    /\ fnArg.fn = "import_csv"
    /\ ~fnRes.done
    /\ fnRes' = [done |-> TRUE, result |-> import_csv(fnArg)]
    /\ UNCHANGED << fnArg, coreVars, notPure >>

NextImport == ApplyImportCsv

-----------------------------------------------------------------------------
(* Database dump: commands/dump.rs *)

\* The schemas of the database and the tables get_tables lists for each.
DumpSchemas == {"s1", "s2", "s3"}
Catalog == [s \in DumpSchemas |->
               CASE s = "s1" -> << "t1", "t2" >>
                 [] s = "s2" -> << "t3" >>
                 [] OTHER    -> << >>]

\* The `schemas` argument: any list, a schema may be named twice.
SchemaLists == {<< >>, << "s1" >>, << "s3" >>, << "s1", "s2" >>, << "s2", "s1" >>,
                << "s3", "s1" >>, << "s2", "s2" >>}

\* Table sizes around the page boundary of stream_insert_statements.
DumpSizes == {0, 1, PAGE_SIZE, PAGE_SIZE + 1}

TableRef(schema, table) == [schema |-> schema, table |-> table]

\* schema_tables, flattened: the tables in the order the two passes visit
\* them.
RECURSIVE SchemaTables(_)
SchemaTables(schemas) ==
    IF schemas = << >> THEN << >>
    ELSE [i \in 1..Len(Catalog[Head(schemas)]) |->
             TableRef(Head(schemas), Catalog[Head(schemas)][i])]
         \o SchemaTables(Tail(schemas))

\* The statements of the first pass in the order the loops write them: one
\* CREATE SCHEMA per entry of schema_tables, followed by its tables.
RECURSIVE DdlItems(_)
DdlItems(schemas) ==
    IF schemas = << >> THEN << >>
    ELSE << [kind |-> "CREATE SCHEMA", schema |-> Head(schemas), table |-> "none"] >>
         \o [i \in 1..Len(Catalog[Head(schemas)]) |->
                [kind |-> "CREATE TABLE", schema |-> Head(schemas),
                 table |-> Catalog[Head(schemas)][i]]]
         \o DdlItems(Tail(schemas))

\* What is written to the file: the header, a DDL statement, or the INSERT
\* statements of one page of rows.
Statement(kind, schema, table, rows) ==
    [kind |-> kind, schema |-> schema, table |-> table, rows |-> rows]

NoRows == Rows(1, 0)

DumpProgress(schema, table, tables_done, tables_total, rows_dumped) ==
    [schema |-> schema, table |-> table, tables_done |-> tables_done,
     tables_total |-> tables_total, rows_dumped |-> rows_dumped]

DumpResult(tables_dumped, rows_dumped) ==
    [ok |-> TRUE, err |-> "none", tables_dumped |-> tables_dumped,
     rows_dumped |-> rows_dumped]
DumpErr(e) == [ok |-> FALSE, err |-> e, tables_dumped |-> 0, rows_dumped |-> 0]

IdleDump ==
    dump = [pc |-> "idle", schemas |-> << >>, include_data |-> FALSE,
            driver |-> "none", schema_tables |-> << >>, tables_total |-> 0,
            pos |-> 1, tables_done |-> 0, total_rows |-> 0,
            n |-> 0, offset |-> 0, total |-> 0, requests |-> 0,
            file |-> << >>, events |-> << >>, result |-> DumpErr("none")]

DumpDone(d, res) == [d EXCEPT !.pc = "done", !.result = res]

\* dump_database up to the first pass: the handle, the tables of every
\* schema, the file and its header.
DumpStart(schemas, include_data, lookup, tables_ok, file_ok) ==
    /\ dump.pc \in {"idle", "done"}
    /\ LET d == [pc |-> "ddl", schemas |-> schemas, include_data |-> include_data,
                 driver |-> lookup, schema_tables |-> SchemaTables(schemas),
                 tables_total |-> Len(SchemaTables(schemas)),
                 pos |-> 1, tables_done |-> 0, total_rows |-> 0,
                 n |-> 0, offset |-> 0, total |-> 0, requests |-> 0,
                 file |-> << Statement("header", "none", "none", NoRows) >>,
                 events |-> << >>, result |-> DumpErr("none")]
           none == [d EXCEPT !.file = << >>]
       IN dump' = IF lookup = "missing"
                  THEN DumpDone(none, DumpErr("ConnectionNotFound"))
                  ELSE IF lookup = "Document"
                       THEN DumpDone(none, DumpErr("UnsupportedOperation"))
                  ELSE IF ~tables_ok /\ schemas # << >>
                       THEN DumpDone(none, DumpErr("Database"))
                  ELSE IF ~file_ok THEN DumpDone(none, DumpErr("Database"))
                  ELSE d
    /\ UNCHANGED << coreVars, notDump >>

\* The first pass emits the progress of a table only when no data follows.
DdlProgressAlways(include_data) == TRUE

DdlProgress(include_data) == ~include_data

\* One statement of the first pass: CREATE SCHEMA, or the CREATE TABLE of
\* the next table (its columns, indexes and foreign keys are read first).
DumpDdl(driver_ok, write_ok) ==
    /\ dump.pc = "ddl"
    /\ dump.pos <= Len(DdlItems(dump.schemas))
    /\ LET item    == DdlItems(dump.schemas)[dump.pos]
           wrote   == [dump EXCEPT !.pos = @ + 1,
                          !.file = Append(@, Statement(item.kind, item.schema,
                                                       item.table, NoRows))]
           done    == dump.tables_done + 1
           emitted == [wrote EXCEPT !.tables_done = done,
                          !.events = Append(@, DumpProgress(item.schema, item.table, done,
                                                            dump.tables_total, 0))]
       IN dump' = IF item.kind = "CREATE TABLE" /\ ~driver_ok
                  THEN DumpDone(dump, DumpErr("Database"))
                  ELSE IF ~write_ok THEN DumpDone(dump, DumpErr("Database"))
                  ELSE IF item.kind = "CREATE TABLE" /\ DdlProgress(dump.include_data)
                       THEN emitted
                  ELSE wrote
    /\ UNCHANGED << coreVars, notDump >>

\* The end of the first pass: the second pass starts with tables_done = 0,
\* or there is none.
DumpDdlEnd ==
    /\ dump.pc = "ddl"
    /\ dump.pos > Len(DdlItems(dump.schemas))
    /\ dump' = IF dump.include_data
               THEN [dump EXCEPT !.pc = "data", !.pos = 1, !.tables_done = 0]
               ELSE [dump EXCEPT !.pc = "flush"]
    /\ UNCHANGED << coreVars, notDump >>

\* stream_insert_statements for the next table, up to its loop: the handle
\* is looked up again; the table holds n rows.
DumpStream(lookup_ok, n) ==
    /\ dump.pc = "data"
    /\ dump.pos <= Len(dump.schema_tables)
    /\ dump' = IF ~lookup_ok THEN DumpDone(dump, DumpErr("ConnectionNotFound"))
               ELSE [dump EXCEPT !.pc = "paging", !.n = n, !.offset = 0,
                                 !.total = 0, !.requests = 0]
    /\ UNCHANGED << coreVars, notDump >>

\* stream_insert_statements returned `total` for the table at dump.pos.
DumpTableDone(d, total) ==
    LET t    == d.schema_tables[d.pos]
        rows == d.total_rows + total
        done == d.tables_done + 1
    IN [d EXCEPT !.pc = "data", !.pos = @ + 1, !.total_rows = rows,
                 !.tables_done = done,
                 !.events = Append(@, DumpProgress(t.schema, t.table, done,
                                                   d.tables_total, rows))]

\* One turn of the loop of stream_insert_statements: a page is requested
\* and its rows are written as INSERT statements; the loop ends on an empty
\* or short page, and the table is reported.
DumpPage(driver_ok, write_ok) ==
    /\ dump.pc = "paging"
    /\ dump.requests < MaxPages
    /\ LET t     == dump.schema_tables[dump.pos]
           asked == [dump EXCEPT !.requests = @ + 1]
           page  == get_table_data(dump.driver, dump.n, PAGE_SIZE, dump.offset)
           count == RowCount(page)
           wrote == [asked EXCEPT !.total = @ + count,
                        !.file = Append(@, Statement("INSERT", t.schema, t.table, page))]
       IN dump' = IF ~driver_ok THEN DumpDone(asked, DumpErr("Database"))
                  ELSE IF count = 0 THEN DumpTableDone(asked, asked.total)
                  ELSE IF ~write_ok THEN DumpDone(asked, DumpErr("Database"))
                  ELSE IF count < PAGE_SIZE THEN DumpTableDone(wrote, wrote.total)
                  ELSE [wrote EXCEPT !.offset = @ + PAGE_SIZE]
    /\ UNCHANGED << coreVars, notDump >>

\* The end of the second pass.
DumpDataEnd ==
    /\ dump.pc = "data"
    /\ dump.pos > Len(dump.schema_tables)
    /\ dump' = [dump EXCEPT !.pc = "flush"]
    /\ UNCHANGED << coreVars, notDump >>

\* writer.flush() and the result.
DumpFlush(flush_ok) ==
    /\ dump.pc = "flush"
    /\ dump' = IF ~flush_ok THEN DumpDone(dump, DumpErr("Database"))
               ELSE DumpDone(dump, DumpResult(dump.tables_total, dump.total_rows))
    /\ UNCHANGED << coreVars, notDump >>

NextDump ==
    \/ \E schemas \in SchemaLists, include_data \in BOOLEAN,
          lookup \in {"missing", "Document", "postgres", "cassandra"},
          tables_ok \in BOOLEAN, file_ok \in BOOLEAN :
          DumpStart(schemas, include_data, lookup, tables_ok, file_ok)
    \/ \E driver_ok \in BOOLEAN, write_ok \in BOOLEAN : DumpDdl(driver_ok, write_ok)
    \/ DumpDdlEnd
    \/ \E lookup_ok \in BOOLEAN, n \in DumpSizes : DumpStream(lookup_ok, n)
    \/ \E driver_ok \in BOOLEAN, write_ok \in BOOLEAN : DumpPage(driver_ok, write_ok)
    \/ DumpDataEnd
    \/ \E flush_ok \in BOOLEAN : DumpFlush(flush_ok)

-----------------------------------------------------------------------------
(* Accessors of a driver handle: db/handle.rs *)

Drivers == {"d1", "d2"}

\* DriverHandle::V(Arc<dyn VDriver>)
DriverHandle(variant, driver) == [variant |-> variant, driver |-> driver]

\* A borrowed trait object, or the error of a refused accessor.
TraitRef(trait, driver) == [ok |-> TRUE, err |-> "none", trait |-> trait, driver |-> driver]
Unsupported == [ok |-> FALSE, err |-> "UnsupportedOperation", trait |-> "none",
                driver |-> "none"]

base(h) == TraitRef("DbDriver", h.driver)

\* as_sql the way a handle without variant check would do it
as_sqlUnchecked(h) == TraitRef("SqlDriver", h.driver)

as_sql(h) ==
    IF h.variant = "Sql" THEN TraitRef("SqlDriver", h.driver) ELSE Unsupported

as_document(h) ==
    IF h.variant = "Document" THEN TraitRef("DocumentDriver", h.driver) ELSE Unsupported

as_keyvalue(h) ==
    IF h.variant = "KeyValue" THEN TraitRef("KeyValueDriver", h.driver) ELSE Unsupported

as_graph(h) ==
    IF h.variant = "Graph" THEN TraitRef("GraphDriver", h.driver) ELSE Unsupported

Accessors == {"base", "as_sql", "as_document", "as_keyvalue", "as_graph"}
TxnHelpers == {"begin_transaction", "commit_transaction", "rollback_transaction"}

Access(op, h) ==
    CASE op = "base"        -> base(h)
      [] op = "as_sql"      -> as_sql(h)
      [] op = "as_document" -> as_document(h)
      [] op = "as_keyvalue" -> as_keyvalue(h)
      [] op = "as_graph"    -> as_graph(h)

\* What SqlDriver::begin/commit/rollback_transaction may answer: done, an
\* engine error, or the default of a driver without transactions.
DriverAnswers == {"none", "Database", "UnsupportedOperation"}

HandleCall(op, h, result) == [op |-> op, variant |-> h.variant, result |-> result]

InitHandle ==
    /\ fnArg \in {[fn |-> "DriverHandle", handle |-> DriverHandle(v, d)] :
                     v \in Variants, d \in Drivers}
    /\ fnRes = [done |-> FALSE, calls |-> << >>, reached |-> << >>]

\* handle.base() / handle.as_*(): the handle is borrowed, nothing is changed.
CallAccessor(op) ==
    /\ fnArg.fn = "DriverHandle"
    /\ Len(fnRes.calls) < MaxHandleOps
    /\ fnRes' = [fnRes EXCEPT !.done = TRUE,
                    !.calls = Append(@, HandleCall(op, fnArg.handle,
                                                   Access(op, fnArg.handle)))]
    /\ UNCHANGED << fnArg, coreVars, notPure >>

\* handle.begin/commit/rollback_transaction(): self.as_sql()?.op().await
CallTxnHelper(op, answer) ==
    /\ fnArg.fn = "DriverHandle"
    /\ Len(fnRes.calls) < MaxHandleOps
    /\ LET sql == as_sql(fnArg.handle)
       IN fnRes' =
            IF ~sql.ok
            THEN [fnRes EXCEPT !.done = TRUE,
                     !.calls = Append(@, HandleCall(op, fnArg.handle, sql))]
            ELSE [fnRes EXCEPT !.done = TRUE,
                     !.calls = Append(@, HandleCall(op, fnArg.handle,
                                   [ok |-> answer = "none", err |-> answer,
                                    trait |-> "none", driver |-> "none"])),
                     !.reached = Append(@, [op |-> op, driver |-> sql.driver])]
    /\ UNCHANGED << fnArg, coreVars, notPure >>

NextHandle ==
    \/ \E op \in Accessors : CallAccessor(op)
    \/ \E op \in TxnHelpers, answer \in DriverAnswers : CallTxnHelper(op, answer)

-----------------------------------------------------------------------------
(* Wrapper drivers: db/drivers/mariadb.rs, redshift.rs, cockroachdb.rs *)

WrapperKinds == {"mariadb", "redshift", "cockroachdb"}

\* The driver held in `inner`.
WrappedEngine(kind) == IF kind = "mariadb" THEN "mysql" ELSE "postgres"

WrapperOps == {"begin_transaction", "commit_transaction", "rollback_transaction",
               "in_transaction", "get_table_stats", "get_routines", "get_sequences",
               "get_enums"}

\* The methods of SqlDriver with a default body that each impl overrides.
Overrides(driver) ==
    CASE driver = "postgres"    -> WrapperOps
      [] driver = "mysql"       -> WrapperOps \ {"get_sequences", "get_enums"}
      [] driver = "redshift"    -> WrapperOps
      [] driver = "mariadb"     -> WrapperOps \ {"get_sequences", "get_enums"}
      [] driver = "cockroachdb" -> {}

DriverOk(value)  == [ok |-> TRUE, err |-> "none", value |-> value]
DriverErr(e)     == [ok |-> FALSE, err |-> e, value |-> "none"]

Outcome(result, txn) == [result |-> result, txn |-> txn]

\* The default bodies of SqlDriver (db/traits.rs): no transactions, row
\* count as the only statistic, no routines, sequences or enums.
SqlDriverDefault(op, txn, engine_ok) ==
    CASE op \in {"begin_transaction", "commit_transaction", "rollback_transaction"}
            -> Outcome(DriverErr("UnsupportedOperation"), txn)
      [] op = "in_transaction" -> Outcome(DriverOk("false"), txn)
      [] op = "get_table_stats"
            -> Outcome(IF engine_ok THEN DriverOk("row_count") ELSE DriverErr("Database"),
                       txn)
      [] OTHER -> Outcome(DriverOk("empty"), txn)

\* PostgresDriver / MySqlDriver: txn is the content of txn_conn, engine_ok
\* says whether the statement sent to the engine succeeds.
EngineCall(engine, op, txn, engine_ok) ==
    IF op \notin Overrides(engine) THEN SqlDriverDefault(op, txn, engine_ok)
    ELSE CASE op = "begin_transaction"
                 -> IF txn THEN Outcome(DriverErr("Database"), txn)
                    ELSE IF ~engine_ok THEN Outcome(DriverErr("Database"), txn)
                    ELSE Outcome(DriverOk("unit"), TRUE)
           [] op \in {"commit_transaction", "rollback_transaction"}
                 -> IF ~txn THEN Outcome(DriverErr("Database"), txn)
                    ELSE IF ~engine_ok THEN Outcome(DriverErr("Database"), txn)
                    ELSE Outcome(DriverOk("unit"), FALSE)
           [] op = "in_transaction"
                 -> Outcome(DriverOk(IF txn THEN "true" ELSE "false"), txn)
           [] op = "get_table_stats"
                 -> Outcome(IF engine_ok THEN DriverOk("row_count and size")
                            ELSE DriverErr("Database"), txn)
           [] OTHER
                 -> Outcome(IF engine_ok THEN DriverOk(op) ELSE DriverErr("Database"), txn)

\* A method of the wrapper: self.inner.op() where the impl has the method,
\* the default body of the trait where it has not.
WrapperCall(kind, op, txn, engine_ok) ==
    IF op \in Overrides(kind)
    THEN EngineCall(WrappedEngine(kind), op, txn, engine_ok)
    ELSE SqlDriverDefault(op, txn, engine_ok)

IdleWrapper ==
    wrapper = [kind |-> "none", inner |-> FALSE, twin |-> FALSE, calls |-> << >>]

\* XDriver::connect(config): a wrapper around a fresh driver; `twin` is a
\* second driver of the wrapped type, called directly.
WrapperConnect(kind) ==
    /\ wrapper.kind = "none"
    /\ wrapper' = [wrapper EXCEPT !.kind = kind]
    /\ UNCHANGED << coreVars, notWrapper >>

\* One operation is called on the wrapper and, for comparison, on the twin.
WrapperStep(op, engine_ok) ==
    /\ wrapper.kind # "none"
    /\ Len(wrapper.calls) < MaxWrapperOps
    /\ LET via    == WrapperCall(wrapper.kind, op, wrapper.inner, engine_ok)
           direct == EngineCall(WrappedEngine(wrapper.kind), op, wrapper.twin, engine_ok)
       IN wrapper' = [wrapper EXCEPT
                         !.inner = via.txn,
                         !.twin  = direct.txn,
                         !.calls = Append(@, [op |-> op, via |-> via.result,
                                              direct |-> direct.result])]
    /\ UNCHANGED << coreVars, notWrapper >>

NextWrapper ==
    \/ \E kind \in WrapperKinds : WrapperConnect(kind)
    \/ \E op \in WrapperOps, engine_ok \in BOOLEAN : WrapperStep(op, engine_ok)

-----------------------------------------------------------------------------
(* Inputs of db/escape.rs *)

IdentOk(name) == [ok |-> TRUE, err |-> "none", value |-> name]
IdentErr(e)   == [ok |-> FALSE, err |-> e, value |-> << >>]

\* validate_identifier without the test for null bytes
validate_identifierNoNul(name) ==
    IF name = << >> THEN IdentErr("InvalidConfig") ELSE IdentOk(name)

validate_identifier(name) ==
    IF name = << >> THEN IdentErr("InvalidConfig")
    ELSE IF contains(name, << "NUL" >>) THEN IdentErr("InvalidConfig")
    ELSE IdentOk(name)

\* The characters with an escape, the characters their escapes are written
\* with, and two plain ones.
EscapeChars == {"'", "\\", "NUL", "\n", "\r", "BS", "SUB", "0", "n", "Z", "a", "_"}

EscapeInputs == UNION {[1..k -> EscapeChars] : k \in 0..MaxEscLen}

InitEscape ==
    /\ fnArg \in {[fn |-> f, s |-> s] :
                     f \in {"escape_sql_literal", "validate_identifier"},
                     s \in EscapeInputs}
    /\ fnRes = [done |-> FALSE]

ApplyEscapeSqlLiteral ==
    /\ fnArg.fn = "escape_sql_literal"
    /\ ~fnRes.done
    /\ fnRes' = [done |-> TRUE, out |-> escape_sql_literal(fnArg.s)]
    /\ UNCHANGED << fnArg, coreVars, notPure >>

ApplyValidateIdentifier ==
    /\ fnArg.fn = "validate_identifier"
    /\ ~fnRes.done
    /\ fnRes' = [done |-> TRUE, result |-> validate_identifier(fnArg.s)]
    /\ UNCHANGED << fnArg, coreVars, notPure >>

NextEscape == ApplyEscapeSqlLiteral \/ ApplyValidateIdentifier

-----------------------------------------------------------------------------
(* Dialect of an engine: commands/connection.rs, db/drivers/*.rs, commands/query.rs *)

\* The DatabaseType values for which create_driver_handle builds a
\* DriverHandle::Sql.
SqlEngines == {"PostgreSQL", "MySQL", "MariaDB", "SQLite", "MSSQL", "CockroachDB",
               "Redshift", "ClickHouse", "Oracle", "Snowflake", "BigQuery",
               "Cassandra", "ScyllaDB"}

\* DbDriver::dialect_hint of the driver create_driver_handle builds: the
\* default of the trait is "generic"; MariaDB and Redshift ask their wrapped
\* driver.
dialect_hint(db_type) ==
    CASE db_type = "PostgreSQL" -> "postgres"
      [] db_type = "Redshift"   -> "postgres"
      [] db_type = "MySQL"      -> "mysql"
      [] db_type = "MariaDB"    -> "mysql"
      [] db_type = "ClickHouse" -> "clickhouse"
      [] db_type = "Snowflake"  -> "snowflake"
      [] db_type = "BigQuery"   -> "bigquery"
      [] db_type \in {"Cassandra", "ScyllaDB"} -> "cassandra"
      [] OTHER -> "generic"

\* The statement fetch_full_cell hands to the driver.
fetch_sql(sql, column, row_offset, dialect, category) ==
    LET col_ident == quote_ident(column, category)
        trimmed   == trim_end_matches(trim(sql), ";")
    IN IF dialect = "mssql"
       THEN << "S", "E", "L", "E", "C", "T", " " >> \o col_ident \o << " ", "F", "R", "O", "M", " ", "(" >> \o trimmed
              \o << ")", " ", "A", "S", " ", "_", "d", "f", "_", "c", "e", "l", "l", " ", "O", "R", "D", "E", "R", " ", "B", "Y", " ", "(", "S", "E", "L", "E", "C", "T", " ", "N", "U", "L", "L", ")", " ", "O", "F", "F", "S", "E", "T", " " >> \o to_string(row_offset)
              \o << " ", "R", "O", "W", "S", " ", "F", "E", "T", "C", "H", " ", "N", "E", "X", "T", " ", "1", " ", "R", "O", "W", "S", " ", "O", "N", "L", "Y" >>
       ELSE << "S", "E", "L", "E", "C", "T", " " >> \o col_ident \o << " ", "F", "R", "O", "M", " ", "(" >> \o trimmed
              \o << ")", " ", "A", "S", " ", "_", "d", "f", "_", "c", "e", "l", "l", " ", "L", "I", "M", "I", "T", " ", "1", " ", "O", "F", "F", "S", "E", "T", " " >> \o to_string(row_offset)

PagedStatements == {<< "S", "E", "L", "E", "C", "T", " ", "1" >>, << "s", "e", "l", "e", "c", "t", " ", "a", " ", "f", "r", "o", "m", " ", "t", " ", "o", "r", "d", "e", "r", " ", "b", "y", " ", "a", ";" >>, << " ", "T", "A", "B", "L", "E", " ", "t", " " >>}

InitDialect ==
    /\ fnArg \in
         {[fn |-> "page on engine", db_type |-> e, sql |-> s, limit |-> m, offset |-> n,
           sort_columns |-> o] :
             e \in SqlEngines, s \in PagedStatements, m \in {1, MaxLimit},
             n \in {0, MaxLimit}, o \in SortInputs}
         \cup
         {[fn |-> "cell on engine", db_type |-> e, sql |-> s, column |-> c,
           row_offset |-> n] :
             e \in SqlEngines, s \in PagedStatements, c \in {<< "a" >>, << "a", "\"", "b" >>},
             n \in {0, MaxLimit}}
    /\ fnRes = [done |-> FALSE]

\* execute_query_page on a connection of the engine, up to execute_raw.
ApplyPageOnEngine ==
    /\ fnArg.fn = "page on engine"
    /\ ~fnRes.done
    /\ fnRes' = [done |-> TRUE,
                 executed |-> paginated_sql(fnArg.sql, fnArg.limit, fnArg.offset,
                                            fnArg.sort_columns,
                                            dialect_hint(fnArg.db_type), "Relational")]
    /\ UNCHANGED << fnArg, coreVars, notPure >>

\* fetch_full_cell on a connection of the engine, up to execute_raw.
ApplyCellOnEngine ==
    /\ fnArg.fn = "cell on engine"
    /\ ~fnRes.done
    /\ fnRes' = [done |-> TRUE,
                 executed |-> fetch_sql(fnArg.sql, fnArg.column, fnArg.row_offset,
                                        dialect_hint(fnArg.db_type), "Relational")]
    /\ UNCHANGED << fnArg, coreVars, notPure >>

NextDialect == ApplyPageOnEngine \/ ApplyCellOnEngine

-----------------------------------------------------------------------------
(* Forwarded pairings of the SSH tunnels: db/tunnel.rs *)

\* The tasks the accept loops spawn, one per accepted local connection:
\* `opening` of them wait for channel_open_direct_tcpip, `piping` copy bytes
\* between the local stream and the channel. They hold their own clone of
\* the session and are not tied to the JoinHandle of the forwarder; `last`
\* is the latest thing that happened to one of them.
IdlePairs == pairs = [opening |-> 0, piping |-> 0, last |-> "none"]

\* listener.accept() returns a connection: its pairing task is spawned and
\* the loop goes on.
FwdAccept(k) ==
    /\ fwd[k].state = "running"
    /\ pairs.opening + pairs.piping < MaxPairs
    /\ pairs' = [pairs EXCEPT !.opening = @ + 1, !.last = "accepted"]
    /\ UNCHANGED << coreVars, notPairing >>

\* channel_open_direct_tcpip answers: the pairing starts to copy, or logs
\* the failure and ends.
PairChannelOpen(ok) ==
    /\ pairs.opening > 0
    /\ pairs' = IF ok
                THEN [pairs EXCEPT !.opening = @ - 1, !.piping = @ + 1,
                                   !.last = "channel open"]
                ELSE [pairs EXCEPT !.opening = @ - 1, !.last = "channel failed"]
    /\ UNCHANGED << coreVars, notPairing >>

\* One side of a pairing is closed or fails: `break`.
PairClosed ==
    /\ pairs.piping > 0
    /\ pairs' = [pairs EXCEPT !.piping = @ - 1, !.last = "closed"]
    /\ UNCHANGED << coreVars, notPairing >>

\* The tunnel manager used by one caller, with the traffic of its tunnels.
NextForward ==
    \/ \E cfg \in Configs : EnsureEnter("u1", cfg)
    \/ \E env \in EstablishEnvs : EnsureEstablish("u1", env)
    \/ EnsureStore("u1")
    \/ \E id \in ConnIds : remove_tunnel("u1", id)
    \/ \E k \in FwdIds : FwdAcceptError(k)
    \/ \E k \in FwdIds : FwdAccept(k)
    \/ \E ok \in BOOLEAN : PairChannelOpen(ok)
    \/ PairClosed

-----------------------------------------------------------------------------
(* Row operations of PostgresDriver / MySqlDriver                            *)
(* (get_row_count, update_cell, insert_row, delete_rows; get_table_data)     *)

RowOps    == {"get_row_count", "update_cell", "insert_row", "delete_rows"}
RowWrites == {"update_cell", "insert_row", "delete_rows"}

\* `durable`: the writes that ran on a connection without an open BEGIN
\* (autocommit: no later ROLLBACK reaches them); `pending`: the writes that
\* ran on a connection inside an open transaction, whose end decides them.
IdleRows == rowdb = [durable |-> {}, pending |-> {}]

\* The row operations running on the pinned connection when there is one
RowOpConnsPinned(tc) == IF tc # 0 THEN {tc} ELSE FreeConns

\* `.execute(&self.pool)` / `.fetch_one(&self.pool)`: the statement runs on
\* a connection the pool hands out, whatever txn_conn holds.
RowOpConns(tc) == FreeConns

\* A row operation up to its first suspension. update_cell, insert_row and
\* delete_rows return InvalidConfig on arguments of mismatched or empty
\* length before any statement; delete_rows of an empty list returns Ok(0).
\* No lock on txn_conn is taken.
RowOpStart(t, op, valid, empty) ==
    /\ task[t].pc = "idle"
    /\ IF op # "get_row_count" /\ ~valid
       THEN task' = [task EXCEPT ![t] = [IdleTask EXCEPT !.op = op, !.res = "InvalidConfig"]]
       ELSE IF op = "delete_rows" /\ empty
       THEN task' = [task EXCEPT ![t] = [IdleTask EXCEPT !.op = op, !.res = "Ok"]]
       ELSE task' = [task EXCEPT ![t] = [IdleTask EXCEPT !.pc = "row_pool_wait", !.op = op]]
    /\ UNCHANGED << txn_conn, txnMutex, begun, rowdb, poolVars, queryVars, tunnelVars,
                    notRowOp >>

\* The pool hands out a connection for the statement, or the acquire fails.
RowOpAcquire(t, ok) ==
    /\ task[t].pc = "row_pool_wait"
    /\ IF ok
       THEN /\ RowOpConns(txn_conn) # {}
            /\ \E c \in RowOpConns(txn_conn) :
                 task' = [task EXCEPT ![t] = [@ EXCEPT !.pc = "row_pool", !.conn = c]]
       ELSE task' = [task EXCEPT ![t] = [IdleTask EXCEPT !.op = task[t].op,
                                            !.res = "Database"]]
    /\ UNCHANGED << txn_conn, txnMutex, begun, rowdb, poolVars, queryVars, tunnelVars,
                    notRowOp >>

\* Where a write that ran on connection c has landed.
Lands(db, op, c) ==
    IF op \notin RowWrites THEN db
    ELSE IF c \in begun THEN [db EXCEPT !.pending = @ \cup {op}]
    ELSE [db EXCEPT !.durable = @ \cup {op}]

\* The statement finishes and its connection goes back to the pool: Err
\* returns (`?`), Ok returns too unless delete_rows has more keys to go
\* through, each with a statement of its own.
RowOpDone(t, ok, more) ==
    /\ task[t].pc = "row_pool"
    /\ more => (ok /\ task[t].op = "delete_rows")
    /\ rowdb' = IF ok THEN Lands(rowdb, task[t].op, task[t].conn) ELSE rowdb
    /\ task' = [task EXCEPT ![t] =
                   IF more THEN [IdleTask EXCEPT !.pc = "row_pool_wait", !.op = task[t].op]
                   ELSE [IdleTask EXCEPT !.op = task[t].op,
                                         !.res = IF ok THEN "Ok" ELSE "Database"]]
    /\ UNCHANGED << txn_conn, txnMutex, begun, poolVars, queryVars, tunnelVars, notRowOp >>

\* Two tasks on one driver: transactions, raw statements (execute_raw, and
\* get_table_data, which is `self.execute_raw(&sql).await` on the statement
\* it formats), row operations.
RowTasks == {"t1", "t2"}

NextRowOps ==
    \/ \E t \in RowTasks : BeginLock(t)
    \/ \E t \in RowTasks, ok \in BOOLEAN : BeginAcquire(t, ok)
    \/ \E t \in RowTasks, ok \in BOOLEAN : BeginExec(t, ok)
    \/ \E t \in RowTasks, op \in {"commit", "rollback"} : EndLock(t, op)
    \/ \E t \in RowTasks, ok \in BOOLEAN : EndExec(t, ok)
    \/ \E t \in RowTasks : ExecLock(t)
    \/ \E t \in RowTasks, ok \in BOOLEAN : ExecPoolAcquire(t, ok)
    \/ \E t \in RowTasks, ok \in BOOLEAN : ExecDone(t, ok)
    \/ \E t \in RowTasks, op \in RowOps, valid \in BOOLEAN, empty \in BOOLEAN :
          RowOpStart(t, op, valid, empty)
    \/ \E t \in RowTasks, ok \in BOOLEAN : RowOpAcquire(t, ok)
    \/ \E t \in RowTasks, ok \in BOOLEAN, more \in BOOLEAN : RowOpDone(t, ok, more)

-----------------------------------------------------------------------------
(* Initial states *)

InitPool ==
    /\ pools = [id \in ConnIds |-> NoHandle]
    /\ poolLog = << >>
    /\ poolRes = [op |-> "none", id |-> "none", ok |-> TRUE, err |-> "none",
                  handle |-> NoHandle]

InitQueryVars ==
    /\ cancelSlots = [q \in QueryIds |-> NoCall]
    /\ call = [c \in Calls |-> IdleCall]
    /\ cancelRet = [query_id |-> "none", ret |-> FALSE, inflight |-> FALSE]

InitTxn ==
    /\ txn_conn = 0
    /\ txnMutex = NoTask
    /\ task = [t \in Tasks |-> IdleTask]
    /\ begun = {}

InitTunnel ==
    /\ tunnels = [id \in ConnIds |-> NoTunnel]
    /\ fwd = [k \in FwdIds |-> NoFwd]
    /\ caller = [u \in Callers |-> IdleCaller]
    /\ tunnelRet = NoReturn

\* No pure function is under evaluation.
InitPure ==
    /\ fnArg = [fn |-> "none"]
    /\ fnRes = [done |-> FALSE]

\* The stores outside the process as the model starts with them.
InitStores == IdleKeychain /\ IdleConn /\ IdleExport /\ IdleDump /\ IdleWrapper
                /\ IdlePairs /\ IdleRows

InitCore == InitPool /\ InitQueryVars /\ InitTxn /\ InitTunnel

InitOther == InitTxn /\ InitTunnel /\ InitPure /\ InitStores

\* The process right after PoolManager::new(), CancellationRegistry::new(),
\* TunnelManager::new().
Init == InitPool /\ InitQueryVars /\ InitOther

\* The process after connect_db has registered connection "c1" (a Sql handle).
InitConnected ==
    /\ pools = [id \in ConnIds |-> IF id = "c1" THEN ArcNew("Sql", 1) ELSE NoHandle]
    /\ poolLog = << >>
    /\ poolRes = [op |-> "none", id |-> "none", ok |-> TRUE, err |-> "none",
                  handle |-> NoHandle]
    /\ InitQueryVars
    /\ InitOther

SpecPool  == Init /\ [][NextPool]_vars
SpecQuery == InitConnected /\ [][NextQuery]_vars
SpecRows  == InitConnected /\ [][NextRows]_vars
SpecTxn   == InitConnected /\ [][NextTxn]_vars
SpecTunnel == Init /\ [][NextTunnel]_vars
StartCells  == InitCore /\ InitStores /\ InitCells
SpecCells  == StartCells /\ [][NextCells]_vars
StartPaging == InitCore /\ InitStores /\ InitPaging
SpecPaging == StartPaging /\ [][NextPaging]_vars
StartWhere  == InitCore /\ InitStores /\ InitWhere
SpecWhere  == StartWhere /\ [][NextWhere]_vars
StartImport == InitCore /\ InitStores /\ InitImport
SpecImport == StartImport /\ [][NextImport]_vars
StartHandle == InitCore /\ InitStores /\ InitHandle
StartEscape == InitCore /\ InitStores /\ InitEscape
StartDialect == InitCore /\ InitStores /\ InitDialect
SpecDialect == StartDialect /\ [][NextDialect]_vars
SpecEscape == StartEscape /\ [][NextEscape]_vars
SpecHandle == StartHandle /\ [][NextHandle]_vars
StartKeychain == InitCore /\ InitPure /\ IdleConn /\ IdleExport /\ IdleDump /\ IdleWrapper
                   /\ IdlePairs /\ IdleRows /\ InitKeychain
SpecKeychain == StartKeychain /\ [][NextKeychain]_vars
SpecConn   == Init /\ [][NextConn]_vars
SpecExport == Init /\ [][NextExport]_vars
SpecDump   == Init /\ [][NextDump]_vars
SpecWrapper == Init /\ [][NextWrapper]_vars
SpecForward == Init /\ [][NextForward]_vars
SpecRowOps == Init /\ [][NextRowOps]_vars

-----------------------------------------------------------------------------
(* Properties of the connection registry *)

\* Ghost: the handle of the most recent add(id, _) in a call history that no
\* later remove(id) follows, NoHandle when there is none.
RECURSIVE LiveHandle(_, _)
LiveHandle(log, id) ==
    IF log = << >> THEN NoHandle
    ELSE LET e == log[Len(log)] IN
         IF e.id = id /\ e.op = "add" THEN e.handle
         ELSE IF e.id = id /\ e.op = "remove" THEN NoHandle
         ELSE LiveHandle(SubSeq(log, 1, Len(log) - 1), id)

\* C1: after any sequence of add/get/remove, get(id) succeeds iff the most
\* recent add(id, _) has not been followed by remove(id) and then returns the
\* handle of that add; otherwise it fails with ConnectionNotFound. remove(id)
\* succeeds iff an entry existed, fails with ConnectionNotFound otherwise, and
\* leaves the entries of the other ids alone.
C1_RegistryContract ==
    /\ \A j \in ConnIds : pools[j] = LiveHandle(poolLog, j)
    /\ Len(poolLog) > 0 =>
        LET e == poolLog[Len(poolLog)]
            before == SubSeq(poolLog, 1, Len(poolLog) - 1)
            live == LiveHandle(before, e.id)
        IN /\ e.op = "get" =>
                /\ poolRes.ok <=> live # NoHandle
                /\ poolRes.ok => poolRes.handle = live
                /\ ~poolRes.ok => poolRes.err = "ConnectionNotFound"
           /\ e.op = "remove" =>
                /\ poolRes.ok <=> live # NoHandle
                /\ ~poolRes.ok => poolRes.err = "ConnectionNotFound"
                /\ pools[e.id] = NoHandle
                /\ \A j \in ConnIds \ {e.id} : pools[j] = LiveHandle(before, j)

\* An id was added twice with different variants, removed, and the get that
\* followed failed with ConnectionNotFound.
C1_Witness ==
    /\ Len(poolLog) = 4
    /\ poolLog[1].op = "add" /\ poolLog[2].op = "add"
    /\ poolLog[1].id = poolLog[2].id
    /\ poolLog[1].handle.variant # poolLog[2].handle.variant
    /\ poolLog[3].op = "remove" /\ poolLog[3].id = poolLog[1].id
    /\ poolLog[4].op = "get" /\ poolLog[4].id = poolLog[1].id
    /\ ~poolRes.ok /\ poolRes.err = "ConnectionNotFound"

-----------------------------------------------------------------------------
(* Properties of the query brokerage *)

\* C2: when a call that supplied a query_id returns (driver success, driver
\* error, QueryTimeout or QueryCancelled), the cancellation registry holds no
\* slot for that query_id.
C2_NoSlotAfterReturn ==
    [][\A c \in Calls :
          (call[c].pc = "running" /\ call'[c].pc = "returned" /\ call[c].query_id.some)
              => cancelSlots'[call[c].query_id.v] = NoCall]_vars

\* C3: cancel_query(qid) returns true iff a query registered under qid is still
\* in flight when it runs, and it never changes the result of a call that has
\* already returned.
C3_CancelTrueIffInFlight ==
    [][/\ cancelRet'.ret = cancelRet'.inflight
       /\ \A c \in Calls :
            (call[c].pc = "returned" /\ call'[c].pc = "returned")
                => call'[c].outcome = call[c].outcome]_vars

\* C4: an execute_query call with a query_id resolves to the outcome of
\* whichever event happened first: the driver's own result, QueryTimeout(effective
\* timeout) or QueryCancelled (the latter only for a cancel_query on its id).
C4_FirstEventDecides ==
    \A c \in Calls :
        (call[c].pc = "returned" /\ call[c].kind = "execute_query"
            /\ call[c].query_id.some) =>
            LET cl == call[c] IN
            /\ cl.first # "none"
            /\ cl.first = "driver" =>
                    /\ cl.driver = "ok" => cl.outcome.tag = "Ok"
                    /\ cl.driver = "err" => cl.outcome = ErrOutcome("Database", 0)
            /\ cl.first = "deadline" =>
                    cl.outcome = ErrOutcome("QueryTimeout", EffectiveTimeout(cl.timeout_secs))
            /\ cl.first = "cancel" => cl.outcome = ErrOutcome("QueryCancelled", 0)

\* C10: every response r of execute_query has |r.rows| = r.row_count; with
\* k = max_rows (10 000 when omitted), more than k driver rows leave the first
\* k rows in order with truncated, max_rows_limit = k and row_count = k; at
\* most k driver rows pass through with truncated = false.
C10_RowCap ==
    \A c \in Calls :
        (call[c].pc = "returned" /\ call[c].kind = "execute_query"
            /\ call[c].outcome.tag = "Ok") =>
            LET r == call[c].outcome.response
                n == call[c].nrows
                k == IF call[c].max_rows.some THEN call[c].max_rows.v ELSE 10000
                kept == IF n > k THEN k ELSE n
            IN /\ Len(r.rows) = r.row_count
               /\ Len(r.rows) = kept
               /\ \A i \in 1..kept : r.rows[i][1] = IntCell(i)
               /\ n > k => /\ r.truncated
                           /\ r.max_rows_limit = Some(k)
                           /\ r.row_count = k
               /\ n <= k => /\ ~r.truncated
                            /\ r.max_rows_limit = None
                            /\ call[c].max_cell_size = None => r = DriverResponse(n)

\* A response cut from 3 driver rows to max_rows = 2.
C10_Witness ==
    /\ call["A"].pc = "returned" /\ call["A"].kind = "execute_query"
    /\ call["A"].max_rows = Some(2) /\ call["A"].nrows = 3
    /\ call["A"].outcome.tag = "Ok"
    /\ call["A"].outcome.response.truncated
    /\ Len(call["A"].outcome.response.rows) = 2

-----------------------------------------------------------------------------
(* Properties of the driver transactions *)

\* Ghost: task t enters operation op in this step.
Invokes(t, op) == task[t].pc = "idle" /\ task'[t] # task[t] /\ task'[t].op = op

\* C5: at most one transaction is active at a time. begin_transaction while
\* one is active fails and leaves it and its pinned connection unchanged; a
\* begin that fails leaves no transaction active; commit or rollback with no
\* active transaction fails and changes nothing.
C5_SingleTransaction ==
    [][/\ Cardinality(begun') <= 1
       /\ txn_conn' # 0 => begun' = {txn_conn'}
       /\ txn_conn' = 0 => begun' = {}
       /\ \A t \in Tasks :
            /\ (Invokes(t, "begin") /\ txn_conn # 0) =>
                    /\ task'[t].pc = "idle"
                    /\ task'[t].res = "TransactionAlreadyActive"
                    /\ txn_conn' = txn_conn /\ begun' = begun
            /\ (task[t].op = "begin" /\ task[t].pc # "idle" /\ task'[t].pc = "idle") =>
                    IF task'[t].res = "Ok"
                    THEN txn_conn' = task[t].conn /\ txn_conn' \in Conns
                    ELSE txn_conn' = 0 /\ begun' = {} /\ (task[t].conn # 0 => task[t].conn \in FreeConns')
            /\ ((Invokes(t, "commit") \/ Invokes(t, "rollback")) /\ txn_conn = 0) =>
                    /\ task'[t].pc = "idle"
                    /\ task'[t].res = "NoActiveTransaction"
                    /\ txn_conn' = txn_conn /\ begun' = begun]_vars

\* A begin_transaction was rejected while another transaction is active.
C5_Witness ==
    /\ txn_conn # 0
    /\ begun = {txn_conn}
    /\ \E t \in Tasks : task[t].pc = "idle" /\ task[t].op = "begin"
                        /\ task[t].res = "TransactionAlreadyActive"

\* C6: whenever commit_transaction or rollback_transaction returns after
\* having found an active transaction, the pinned connection has been
\* released, in_transaction is false and the next begin_transaction is accepted.
C6_EndReleasesPin ==
    [][\A t \in Tasks :
          (task[t].pc = "end_exec" /\ task'[t].pc = "idle") =>
              /\ txn_conn' = 0
              /\ begun' = {}
              /\ ~BeginRejects(txn_conn')]_vars

\* C7: statements inside a transaction run one at a time on the pinned
\* connection under the txn_conn mutex, and commit / rollback / begin never
\* overlap such a statement; a statement routed to the pool neither holds the
\* mutex nor uses the pinned connection.
C7_StatementsSerialized ==
    [][/\ Cardinality({t \in Tasks : task'[t].pc = "exec_pinned"}) <= 1
       /\ \A t \in Tasks :
            /\ task'[t].pc = "exec_pinned" =>
                    /\ txn_conn' # 0
                    /\ txnMutex' = t
                    /\ \A u \in Tasks \ {t} :
                          task'[u].pc \notin {"end_exec", "begin_acquire", "begin_exec"}
            /\ task'[t].pc \in {"exec_pool_wait", "exec_pool"} => txnMutex' # t
            /\ task'[t].pc = "exec_pool" =>
                    task'[t].conn \in Conns /\ task'[t].conn # txn_conn'
            /\ Invokes(t, "execute_raw") =>
                    /\ txn_conn # 0 => task'[t].pc = "exec_pinned"
                    /\ txn_conn = 0 => task'[t].pc = "exec_pool_wait"
            /\ (Invokes(t, "commit") \/ Invokes(t, "rollback")) =>
                    \A u \in Tasks : task[u].pc # "exec_pinned"]_vars

\* A statement runs on the pinned connection under the mutex while two
\* statements routed to the pool before the transaction began still run in
\* parallel.
C7_Witness ==
    /\ txn_conn # 0
    /\ task["t1"].pc = "exec_pinned" /\ txnMutex = "t1"
    /\ task["t2"].pc = "exec_pool" /\ task["t3"].pc = "exec_pool"
    /\ task["t2"].conn # task["t3"].conn

-----------------------------------------------------------------------------
(* SSH tunnel claims *)

\* The step is one on which an ensure_tunnel call returns: at once (nothing
\* but the recorded return changes) or out of an establishment.
EnsureReturns ==
    /\ tunnelRet'.op = "ensure_tunnel"
    /\ \/ tunnelRet' # tunnelRet
       \/ \E u \in Callers : caller[u].pc # "idle" /\ caller'[u].pc = "idle"

\* The entry stored for id names a forwarder that is running.
LiveEntry(id) == tunnels[id].present /\ fwd[tunnels[id].task_handle].state = "running"

\* C8: while the forwarder of the tunnel stored for an id is live, an
\* ensure_tunnel for that id (with SSH enabled and host and user given) does
\* not start an establishment: it returns at once, with the stored local
\* port, and leaves the map and the forwarders as they are; a call returns
\* by reuse only when the entry it found names a running forwarder;
\* remove_tunnel(id) removes the entry and stops its forwarder, so the
\* ensure_tunnel after a removal establishes a tunnel of its own.
C8_TunnelReuse ==
    [][ /\ \A u \in Callers :
              (caller[u].pc = "idle" /\ caller'[u].pc = "establish")
              => ~LiveEntry(caller'[u].cfg.id)
        /\ ( /\ EnsureReturns
             /\ caller' = caller
             /\ tunnelRet'.cfg.ssh_enabled
             /\ tunnelRet'.cfg.ssh_host.some /\ tunnelRet'.cfg.ssh_user.some )
           => /\ LiveEntry(tunnelRet'.cfg.id)
              /\ tunnelRet'.res.ok /\ tunnelRet'.res.reused
              /\ tunnelRet'.res.cfg.port = Some(tunnels[tunnelRet'.cfg.id].local_port)
              /\ tunnels' = tunnels
              /\ fwd' = fwd
        /\ (EnsureReturns /\ tunnelRet'.res.reused)
           => /\ LiveEntry(tunnelRet'.cfg.id)
              /\ tunnels' = tunnels
        /\ \A id \in ConnIds :
              ( /\ tunnelRet'.op = "remove_tunnel" /\ tunnelRet'.cfg.id = id
                /\ tunnelRet' # tunnelRet
                /\ tunnels[id].present )
              => /\ ~tunnels'[id].present
                 /\ fwd'[tunnels[id].task_handle].state # "running"
      ]_vars

\* A call for c1 has just returned the port of the stored tunnel by reuse,
\* its forwarder running, with nobody in the middle of an establishment.
C8_Witness ==
    /\ tunnelRet.op = "ensure_tunnel"
    /\ tunnelRet.cfg.id = "c1"
    /\ tunnelRet.res.ok /\ tunnelRet.res.reused
    /\ tunnels["c1"].present
    /\ fwd[tunnels["c1"].task_handle].state = "running"
    /\ tunnelRet.res.cfg.port = Some(tunnels["c1"].local_port)
    /\ \A u \in Callers : caller[u].pc = "idle"

\* C9: an ensure_tunnel call with SSH disabled returns its argument and
\* touches neither the map nor the forwarders; a successful call with SSH
\* enabled returns the argument with host 127.0.0.1, the port of the tunnel
\* stored for the id and ssh_enabled false, every other field as it was; the
\* caller's configuration is the same before and after.
C9_TunneledConfig ==
    [][ EnsureReturns =>
            LET cfg == tunnelRet'.cfg
                out == tunnelRet'.res.cfg
            IN /\ \A u \in Callers :
                    (caller[u].pc # "idle" /\ caller'[u].pc = "idle") => cfg = caller[u].cfg
               /\ ~cfg.ssh_enabled =>
                    /\ tunnelRet'.res.ok
                    /\ out = cfg
                    /\ tunnels' = tunnels
                    /\ fwd' = fwd
               /\ (cfg.ssh_enabled /\ tunnelRet'.res.ok) =>
                    /\ out.host = Some(LOCALHOST)
                    /\ tunnels'[cfg.id].present
                    /\ out.port = Some(tunnels'[cfg.id].local_port)
                    /\ out.ssh_enabled = FALSE
                    /\ out.id = cfg.id
                    /\ out.ssh_host = cfg.ssh_host
                    /\ out.ssh_user = cfg.ssh_user
                    /\ out.ssh_key_path = cfg.ssh_key_path
                    /\ out.ssh_password = cfg.ssh_password
      ]_vars

\* A call with SSH on has just returned the tunnelled copy of its argument,
\* through a tunnel it established itself.
C9_Witness ==
    /\ tunnelRet.op = "ensure_tunnel"
    /\ tunnelRet.cfg.ssh_enabled
    /\ tunnelRet.res.ok /\ ~tunnelRet.res.reused
    /\ tunnelRet.res.cfg.host = Some(LOCALHOST)
    /\ tunnelRet.res.cfg.ssh_enabled = FALSE
    /\ tunnelRet.res.cfg.port = Some(tunnels[tunnelRet.cfg.id].local_port)

-----------------------------------------------------------------------------
(* Properties of the response post-processing *)

\* C11: with max_cell_size = m, a Text / Json cell becomes LargeText /
\* LargeJson exactly when its length (in bytes, as the code measures it)
\* exceeds m, with full_length the original length and preview the first m
\* characters of the original, a strict prefix of it; a Binary cell longer
\* than m becomes LargeBinary with full_length its byte count and
\* preview_length = m; every other cell is left as it was.
C11_LargeCellRewrite ==
    fnRes.done =>
        LET c   == fnArg.cell
            m   == fnArg.max_cell_size
            row == fnRes.response.rows[1]
            out == row[2]
            large == [Text |-> "LargeText", Json |-> "LargeJson", Binary |-> "LargeBinary"]
        IN /\ Len(fnRes.response.rows) = 1 /\ Len(row) = 2
           /\ row[1] = IntCell(1)
           /\ (c.tag \in {"Text", "Json"} /\ ByteLen(c.text) > m) =>
                /\ out.tag = large[c.tag]
                /\ out.full_length = ByteLen(c.text)
                /\ out.text = SubSeq(c.text, 1, m)
                /\ Len(out.text) = m
                /\ out.text # c.text
           /\ (c.tag = "Binary" /\ Len(c.text) > m) =>
                /\ out.tag = "LargeBinary"
                /\ out.full_length = Len(c.text)
                /\ out.preview_length = m
           /\ ~(c.tag \in {"Text", "Json", "Binary"} /\ ByteLen(c.text) > m) => out = c

-----------------------------------------------------------------------------
(* Properties of the pagination rewriting *)

ContainsIgnoreCase(s, p) ==
    \E i \in 0..(Len(s) - Len(p)) :
        \A j \in 1..Len(p) : to_uppercase_char(s[i + j]) = p[j]

\* The body of a statement: what is left when its surrounding whitespace,
\* and then the semicolons that end it, are taken away.
BodyOf(s) ==
    LET n == Len(s)
        i == CHOOSE i \in 0..n :
                 /\ \A x \in 1..i : s[x] \in WHITESPACE
                 /\ i < n => s[i + 1] \notin WHITESPACE
        k == CHOOSE k \in i..n :
                 /\ \A x \in (k + 1)..n : s[x] \in WHITESPACE
                 /\ k > i => s[k] \notin WHITESPACE
        j == CHOOSE j \in i..k :
                 /\ \A x \in (j + 1)..k : s[x] = ";"
                 /\ j > i => s[j] # ";"
    IN SubSeq(s, i + 1, j)

PageOf(body, m, n, dialect) ==
    IF dialect = "mssql"
    THEN body
           \o (IF ContainsIgnoreCase(body, << "O", "R", "D", "E", "R", " ", "B", "Y" >>) THEN << >>
               ELSE << " ", "O", "R", "D", "E", "R", " ", "B", "Y", " ", "(", "S", "E", "L", "E", "C", "T", " ", "N", "U", "L", "L", ")" >>)
           \o << " ", "O", "F", "F", "S", "E", "T", " " >> \o to_string(n) \o << " ", "R", "O", "W", "S", " ", "F", "E", "T", "C", "H", " ", "N", "E", "X", "T", " " >> \o to_string(m)
           \o << " ", "R", "O", "W", "S", " ", "O", "N", "L", "Y" >>
    ELSE << "S", "E", "L", "E", "C", "T", " ", "*", " ", "F", "R", "O", "M", " ", "(" >> \o body \o << ")", " ", "A", "S", " ", "_", "d", "f", "_", "p", "a", "g", "e", " ", "L", "I", "M", "I", "T", " " >> \o to_string(m)
           \o << " ", "O", "F", "F", "S", "E", "T", " " >> \o to_string(n)

\* C12: wrap_paginated(body, m, n, dialect) strips the surrounding
\* whitespace and the trailing semicolons of the body; for 'mssql' it yields
\* the body, ' ORDER BY (SELECT NULL)' only if the body has no ORDER BY in
\* any letter case, then ' OFFSET n ROWS FETCH NEXT m ROWS ONLY'; for any
\* other dialect 'SELECT * FROM (body) AS _df_page LIMIT m OFFSET n'.  With
\* sort columns, execute_query_page wraps the body followed by the ORDER BY
\* clause.
C12_WrapPaginated ==
    fnRes.done =>
        /\ fnArg.fn = "wrap_paginated" =>
             fnRes.sql = PageOf(BodyOf(fnArg.sql), fnArg.limit, fnArg.offset,
                                fnArg.dialect)
        /\ (/\ fnArg.fn = "execute_query_page"
            /\ is_paginatable_query(fnArg.sql)
            /\ fnArg.sort_columns.some
            /\ fnArg.sort_columns.v # << >>) =>
             fnRes.executed =
                 PageOf(BodyOf(fnArg.sql)
                            \o build_order_by(fnArg.sort_columns.v, "Relational"),
                        fnArg.limit, fnArg.offset, fnArg.dialect)

\* An mssql statement with leading whitespace, an 'order by' in lower or
\* mixed case and trailing semicolons has been wrapped.
C12_Witness ==
    /\ fnRes.done
    /\ fnArg.fn = "wrap_paginated"
    /\ fnArg.dialect = "mssql"
    /\ fnArg.limit = MaxLimit /\ fnArg.offset = 1
    /\ fnArg.sql # << >> /\ fnArg.sql[1] \in WHITESPACE
    /\ fnArg.sql[Len(fnArg.sql)] = ";"
    /\ ContainsIgnoreCase(fnArg.sql, << "O", "R", "D", "E", "R", " ", "B", "Y" >>)
    /\ ~contains(fnArg.sql, << "O", "R", "D", "E", "R", " ", "B", "Y" >>)
    /\ ~contains(fnRes.sql, << "(", "S", "E", "L", "E", "C", "T", " ", "N", "U", "L", "L", ")" >>)

WordChars == {UpperCase[i] : i \in 1..Len(UpperCase)}
                 \cup {Digits[i] : i \in 1..Len(Digits)} \cup {"_"}

\* The first word of a statement, trimmed and case-folded.
LeadingKeyword(s) ==
    LET upper == to_uppercase(BodyOf(s))
        n == CHOOSE n \in 0..Len(upper) :
                 /\ \A x \in 1..n : upper[x] \in WordChars
                 /\ n < Len(upper) => upper[n + 1] \notin WordChars
    IN SubSeq(upper, 1, n)

Paginatable(s) == LeadingKeyword(s) \in {<< "S", "E", "L", "E", "C", "T" >>, << "W", "I", "T", "H" >>, << "T", "A", "B", "L", "E" >>, << "V", "A", "L", "U", "E", "S" >>}

\* C13: a statement is treated as paginatable iff its leading keyword is
\* exactly SELECT, WITH, TABLE or VALUES: execute_query_page rewrites a
\* paginatable statement and passes any other to the driver unchanged, and
\* count_query_rows fails with InvalidConfig for a non-paginatable statement
\* without calling the driver.
C13_PaginatableIffKeyword ==
    fnRes.done =>
        /\ fnArg.fn = "execute_query_page" =>
             IF Paginatable(fnArg.sql)
             THEN fnRes.executed # fnArg.sql
             ELSE fnRes.executed = fnArg.sql
        /\ (fnArg.fn = "count_query_rows" /\ fnArg.connected) =>
             IF Paginatable(fnArg.sql)
             THEN fnRes.driver_calls # << >>
             ELSE fnRes.err = "InvalidConfig" /\ fnRes.driver_calls = << >>

-----------------------------------------------------------------------------
(* Properties of the WHERE clause builder *)

ClosedOperators ==
    {<< "e", "q" >>, << "n", "e", "q" >>, << "g", "t" >>, << "g", "t", "e" >>, << "l", "t" >>, << "l", "t", "e" >>, << "c", "o", "n", "t", "a", "i", "n", "s" >>, << "s", "t", "a", "r", "t", "s", "_", "w", "i", "t", "h" >>,
     << "i", "s", "_", "n", "u", "l", "l" >>, << "i", "s", "_", "n", "o", "t", "_", "n", "u", "l", "l" >>}

HasClosedOperator(f) == f.operator \in ClosedOperators

ComparisonSymbol(op) ==
    CASE op = << "e", "q" >>  -> << "=" >>
      [] op = << "n", "e", "q" >> -> << "!", "=" >>
      [] op = << "g", "t" >>  -> << ">" >>
      [] op = << "g", "t", "e" >> -> << ">", "=" >>
      [] op = << "l", "t" >>  -> << "<" >>
      [] op = << "l", "t", "e" >> -> << "<", "=" >>

\* The one clause of a filter whose operator is in the closed set.
ClauseOf(f) ==
    LET col == quote_ident(f.column, "Relational")
        lit == escape_sql_literal(f.value)
    IN CASE f.operator = << "i", "s", "_", "n", "u", "l", "l" >>     -> col \o << " ", "I", "S", " ", "N", "U", "L", "L" >>
         [] f.operator = << "i", "s", "_", "n", "o", "t", "_", "n", "u", "l", "l" >> -> col \o << " ", "I", "S", " ", "N", "O", "T", " ", "N", "U", "L", "L" >>
         [] f.operator = << "c", "o", "n", "t", "a", "i", "n", "s" >>    ->
                col \o << " ", "L", "I", "K", "E", " ", "'", "%" >> \o replace(lit, "%", << "\\", "%" >>) \o << "%", "'" >>
         [] f.operator = << "s", "t", "a", "r", "t", "s", "_", "w", "i", "t", "h" >> ->
                col \o << " ", "L", "I", "K", "E", " ", "'" >> \o replace(lit, "%", << "\\", "%" >>) \o << "%", "'" >>
         [] OTHER ->
                col \o << " " >> \o ComparisonSymbol(f.operator) \o << " ", "'" >> \o lit \o << "'" >>

\* C14: build_where_clause renders every filter whose operator is in the
\* closed set as exactly one clause, in input order, joined by ' AND ' after
\* ' WHERE ', the value passed through escape_sql_literal (is_null and
\* is_not_null ignore it); a filter with any other operator gives no clause,
\* and without any clause the result is the empty string.
C14_WhereClause ==
    (fnRes.done /\ fnArg.fn = "build_where_clause") =>
        LET kept == SelectSeq(fnArg.filters, HasClosedOperator)
        IN fnRes.clause =
             IF kept = << >> THEN << >>
             ELSE << " ", "W", "H", "E", "R", "E", " " >> \o join([i \in 1..Len(kept) |-> ClauseOf(kept[i])], << " ", "A", "N", "D", " " >>)

\* A clause has been built from a filter with an unknown operator followed
\* by a 'contains' filter whose value holds a quote.
C14_Witness ==
    /\ fnRes.done
    /\ fnArg.fn = "build_where_clause"
    /\ Len(fnArg.filters) = 2
    /\ fnArg.filters[1].operator = << "l", "i", "k", "e" >>
    /\ fnArg.filters[2].operator = << "c", "o", "n", "t", "a", "i", "n", "s" >>
    /\ fnArg.filters[2].value = << "i", "t", "'", "s" >>
    /\ fnRes.clause = << " ", "W", "H", "E", "R", "E", " ", "\"", "a", "\"", " ", "L", "I", "K", "E", " ", "'", "%", "i", "t", "'", "'", "s", "%", "'" >>

-----------------------------------------------------------------------------
(* Properties of the keychain *)

\* C15: a get that misses under the current service name and hits under the
\* legacy one returns the legacy value and leaves it stored under the current
\* name and absent from the legacy name; a get of a secret stored under the
\* current name returns it without consulting the legacy name.
C15_LegacyMigration ==
    [][(keyRet'.op = "get_secret" /\ keyRet'.seq # keyRet.seq) =>
          LET u       == keyRet'.username
              current == keyring[SERVICE_NAME][u]
              legacy  == keyring[LEGACY_SERVICE_NAME][u]
          IN /\ (keyRet'.legacy_consulted /\ keyRet'.value.some) =>
                  /\ current = NoSecret
                  /\ keyRet'.value = SomeValue(legacy)
                  /\ keyring'[SERVICE_NAME][u] = legacy
                  /\ keyring'[LEGACY_SERVICE_NAME][u] = NoSecret
             /\ (current # NoSecret /\ keyRet'.value.some) =>
                  /\ keyRet'.value = SomeValue(current)
                  /\ ~keyRet'.legacy_consulted
                  /\ keyring' = keyring]_vars

-----------------------------------------------------------------------------
(* Properties of the connection commands *)

\* C16: test_connection swallows failures: whatever fails while a
\* configuration is tested, the SSH tunnel or the driver connect, it returns
\* Ok(false) and not an error (and Ok(true) when nothing fails), and no step
\* of it changes the connection registry.
C16_TestSwallowsFailures ==
    [][/\ connRet'.op = "test_connection" =>
            /\ connRet'.ok
            /\ connRet'.value = (connRet'.failure = "none")
       /\ (\/ \E u \in Callers : cmd[u].op = "test_connection"
           \/ \E u \in Callers : cmd'[u].op = "test_connection"
           \/ (connRet' # connRet /\ connRet'.op = "test_connection")) =>
            pools' = pools]_vars

-----------------------------------------------------------------------------
(* Properties of the export *)

\* C17: a full-table export over a Sql driver asks for pages of 5 000 rows
\* at offsets 0, 5000, 10000, ..., writes every row of the table exactly
\* once, stops at the first page that is empty or shorter than 5 000 rows
\* (so after at most n / 5000 + 1 requests for a table of n rows) and
\* returns the number of rows written.
C17_ExportPaging ==
    (exp.pc # "idle" /\ exp.driver \in {"postgres", "cassandra"}) =>
        /\ \A i \in 1..Len(exp.requests) : exp.requests[i] = (i - 1) * PAGE_SIZE
        /\ Len(exp.requests) <= (exp.n \div PAGE_SIZE) + 1
        /\ \A i \in 1..Len(exp.written) :
              /\ exp.written[i].from = (IF i = 1 THEN 1 ELSE exp.written[i - 1].to + 1)
              /\ exp.written[i].to <= exp.n
        /\ exp.pc = "paging" =>
              \A i \in 1..Len(exp.written) : RowCount(exp.written[i]) = PAGE_SIZE
        /\ (exp.pc = "done" /\ exp.result.ok) =>
              /\ exp.result.count = exp.n
              /\ exp.total = exp.n
              /\ exp.n > 0 => exp.written[Len(exp.written)].to = exp.n

-----------------------------------------------------------------------------
(* Properties of the CSV import *)

\* The rows (numbered from 1) of the records that fail: a parse error, or a
\* row the database refuses.
FailedRows(records) ==
    {i \in 1..Len(records) : ~records[i].parse_ok \/ ~records[i].accepted}

ParsedRows(records) == {i \in 1..Len(records) : records[i].parse_ok}

\* C18: import_csv goes through every record whatever fails: on return
\* rows_imported + rows_failed is the number of records, errors reports
\* exactly the first min(10, rows_failed) failures in row order, and every
\* record that parses is passed to insert_row, in order, with the first
\* min(#column names, #values) column / value pairs.
C18_ImportTally ==
    (fnRes.done /\ fnArg.fn = "import_csv" /\ fnArg.lookup = "Sql" /\ fnArg.file_ok
       /\ fnArg.columns_ok) =>
        LET r      == fnRes.result
            recs   == fnArg.records
            failed == FailedRows(recs)
            parsed == ParsedRows(recs)
        IN /\ r.ok
           /\ r.rows_imported + r.rows_failed = Len(recs)
           /\ r.rows_failed = Cardinality(failed)
           /\ Len(r.errors) = Min(10, r.rows_failed)
           /\ \A k \in 1..Len(r.errors) :
                 /\ r.errors[k].row \in failed
                 /\ Cardinality({i \in failed : i < r.errors[k].row}) = k - 1
                 /\ r.errors[k].kind = (IF recs[r.errors[k].row].parse_ok
                                        THEN "insert_row" ELSE "CSV parse error")
           /\ Len(r.inserts) = Cardinality(parsed)
           /\ \A i \in parsed :
                 LET k == Cardinality({j \in parsed : j <= i})
                     n == Min(Len(fnArg.col_names), Len(recs[i].values))
                 IN /\ r.inserts[k].cols = SubSeq(fnArg.col_names, 1, n)
                    /\ r.inserts[k].vals = SubSeq(recs[i].values, 1, n)

\* A file with more than ten failing records, some parse errors and some
\* refused rows, and more values than the table has columns, was imported.
C18_Witness ==
    /\ fnRes.done
    /\ fnArg.fn = "import_csv"
    /\ fnRes.result.ok
    /\ fnRes.result.rows_failed > 10
    /\ fnRes.result.rows_imported > 0
    /\ Len(fnRes.result.errors) = 10
    /\ \E i \in 1..Len(fnArg.records) : ~fnArg.records[i].parse_ok
    /\ \E i \in 1..Len(fnArg.records) :
          /\ fnArg.records[i].parse_ok
          /\ Len(fnArg.records[i].values) > Len(fnArg.col_names)

-----------------------------------------------------------------------------
(* Properties of the database dump *)

DdlKinds == {"CREATE SCHEMA", "CREATE TABLE"}

\* How often a schema is named in the request.
Requested(schemas, s) == Cardinality({i \in 1..Len(schemas) : schemas[i] = s})

\* How many statements of a kind the file holds for a schema and table.
Written(file, kind, s, t) ==
    Cardinality({i \in 1..Len(file) :
                    file[i].kind = kind /\ file[i].schema = s /\ file[i].table = t})

\* The k-th table of the request, counting through the requested schemas
\* in order.
RECURSIVE TableAt(_, _)
TableAt(schemas, k) ==
    IF k <= Len(Catalog[Head(schemas)])
    THEN TableRef(Head(schemas), Catalog[Head(schemas)][k])
    ELSE TableAt(Tail(schemas), k - Len(Catalog[Head(schemas)]))

RECURSIVE TableCount(_)
TableCount(schemas) ==
    IF schemas = << >> THEN 0
    ELSE Len(Catalog[Head(schemas)]) + TableCount(Tail(schemas))

\* C19: in a successful dump every CREATE SCHEMA and CREATE TABLE of the
\* requested schemas is written, and all of them before the first INSERT;
\* there is one progress event per table, in table order, tables_done
\* counting 1, 2, ..., tables_total, rows_dumped never decreasing; with
\* data included the result reports the rows_dumped of the last event.
C19_DumpOrder ==
    (dump.pc = "done" /\ dump.result.ok) =>
        LET file    == dump.file
            events  == dump.events
            schemas == dump.schemas
            total   == TableCount(schemas)
        IN /\ \A s \in DumpSchemas :
                 /\ Written(file, "CREATE SCHEMA", s, "none") = Requested(schemas, s)
                 /\ \A j \in 1..Len(Catalog[s]) :
                       Written(file, "CREATE TABLE", s, Catalog[s][j])
                           = Requested(schemas, s)
           /\ \A i \in 1..Len(file), j \in 1..Len(file) :
                 (file[i].kind = "INSERT" /\ file[j].kind \in DdlKinds) => j < i
           /\ Len(events) = total
           /\ \A k \in 1..Len(events) :
                 /\ events[k].tables_done = k
                 /\ events[k].tables_total = total
                 /\ TableRef(events[k].schema, events[k].table) = TableAt(schemas, k)
                 /\ k > 1 => events[k - 1].rows_dumped <= events[k].rows_dumped
           /\ dump.result.tables_dumped = total
           /\ (dump.include_data /\ Len(events) > 0) =>
                 dump.result.rows_dumped = events[Len(events)].rows_dumped

\* A dump with data of two schemas and three tables has succeeded, one of
\* the tables took more than one page and another had no rows.
C19_Witness ==
    /\ dump.pc = "done"
    /\ dump.result.ok
    /\ dump.include_data
    /\ dump.schemas = << "s2", "s1" >>
    /\ Len(dump.events) = 3
    /\ dump.events[1].rows_dumped = PAGE_SIZE + 1
    /\ dump.events[2].rows_dumped = PAGE_SIZE + 1
    /\ dump.events[3].rows_dumped = PAGE_SIZE + 2
    /\ \E i \in 1..Len(dump.file) : dump.file[i].kind = "INSERT"

\* A dump without data of a schema with two tables has succeeded.
C19_WitnessSchemaOnly ==
    /\ dump.pc = "done"
    /\ dump.result.ok
    /\ ~dump.include_data
    /\ Len(dump.events) = 2

-----------------------------------------------------------------------------
(* Properties of the handle accessors *)

\* The trait each variant gives access to.
TraitOf(variant) ==
    CASE variant = "Sql"      -> "SqlDriver"
      [] variant = "Document" -> "DocumentDriver"
      [] variant = "KeyValue" -> "KeyValueDriver"
      [] variant = "Graph"    -> "GraphDriver"

VariantOf(op) ==
    CASE op = "as_sql"      -> "Sql"
      [] op = "as_document" -> "Document"
      [] op = "as_keyvalue" -> "KeyValue"
      [] op = "as_graph"    -> "Graph"

\* C20: on a handle of variant V, base() succeeds, the accessor of V
\* succeeds and the three others fail with UnsupportedOperation; the
\* transaction helpers of a handle that is not Sql fail with
\* UnsupportedOperation and the driver is not called; every call sees the
\* same variant.
C20_Accessors ==
    fnArg.fn = "DriverHandle" =>
        LET h == fnArg.handle
        IN /\ \A k \in 1..Len(fnRes.calls) :
                 LET c == fnRes.calls[k]
                 IN /\ c.variant = h.variant
                    /\ c.op = "base" =>
                          c.result.ok /\ c.result.driver = h.driver
                    /\ c.op \in Accessors \ {"base"} =>
                          IF VariantOf(c.op) = h.variant
                          THEN /\ c.result.ok
                               /\ c.result.trait = TraitOf(h.variant)
                               /\ c.result.driver = h.driver
                          ELSE ~c.result.ok /\ c.result.err = "UnsupportedOperation"
                    /\ (c.op \in TxnHelpers /\ h.variant # "Sql") =>
                          ~c.result.ok /\ c.result.err = "UnsupportedOperation"
           /\ h.variant # "Sql" => fnRes.reached = << >>
           /\ Len(fnRes.reached) =
                 Cardinality({k \in 1..Len(fnRes.calls) :
                                 fnRes.calls[k].op \in TxnHelpers /\ h.variant = "Sql"})

\* A Document handle was asked for its own trait, for SQL access and for a
\* transaction.
C20_Witness ==
    /\ fnArg.fn = "DriverHandle"
    /\ fnArg.handle.variant = "Document"
    /\ Len(fnRes.calls) = 3
    /\ fnRes.calls[1].op = "as_document" /\ fnRes.calls[1].result.ok
    /\ fnRes.calls[2].op = "as_sql" /\ ~fnRes.calls[2].result.ok
    /\ fnRes.calls[3].op = "begin_transaction" /\ ~fnRes.calls[3].result.ok
    /\ fnRes.reached = << >>

-----------------------------------------------------------------------------
(* Properties of the wrapper drivers *)

\* C21: every transaction and metadata operation called on a wrapper
\* (MariaDB, Redshift, CockroachDB) has the outcome the wrapped driver gives
\* when called directly, and leaves the wrapped driver in the same
\* transaction state.
C21_WrappersDelegate ==
    /\ wrapper.inner = wrapper.twin
    /\ \A k \in 1..Len(wrapper.calls) : wrapper.calls[k].via = wrapper.calls[k].direct

\* The same for the wrappers that have all the methods their wrapped driver
\* has (MariaDB and Redshift).
C21_FullWrappersDelegate ==
    wrapper.kind \in {"mariadb", "redshift"} => C21_WrappersDelegate

-----------------------------------------------------------------------------
(* Properties of db/escape.rs *)

\* The escape of each character the claim lists.
EscapeTable(ch) ==
    CASE ch = "'"   -> << "'", "'" >>
      [] ch = "\\"  -> << "\\", "\\" >>
      [] ch = "NUL" -> << "\\", "0" >>
      [] ch = "\n"  -> << "\\", "n" >>
      [] ch = "\r"  -> << "\\", "r" >>
      [] ch = "BS"  -> << "\\", "b" >>
      [] ch = "SUB" -> << "\\", "Z" >>
      [] OTHER      -> << ch >>

Escaped == {"'", "\\", "NUL", "\n", "\r", "BS", "SUB"}

\* What a backslash followed by c stands for.
Unescaped(c) ==
    CASE c = "\\" -> "\\"
      [] c = "0"  -> "NUL"
      [] c = "n"  -> "\n"
      [] c = "r"  -> "\r"
      [] c = "b"  -> "BS"
      [] c = "Z"  -> "SUB"
      [] OTHER    -> c

\* The inverse: read from the left, '' is a quote, a backslash takes the
\* next character with it, anything else stands for itself.
RECURSIVE unescape(_)
unescape(t) ==
    IF t = << >> THEN << >>
    ELSE IF Len(t) >= 2 /\ t[1] = "'" /\ t[2] = "'"
         THEN << "'" >> \o unescape(SubSeq(t, 3, Len(t)))
    ELSE IF Len(t) >= 2 /\ t[1] = "\\"
         THEN << Unescaped(t[2]) >> \o unescape(SubSeq(t, 3, Len(t)))
    ELSE << t[1] >> \o unescape(Tail(t))

RECURSIVE Concat(_)
Concat(ss) == IF ss = << >> THEN << >> ELSE Head(ss) \o Concat(Tail(ss))

\* C22: escape_sql_literal replaces each of ' \ NUL LF CR BS SUB by its
\* two-character escape and copies every other character, so that a string
\* without them comes back as it is, and unescape gives the string back.
C22_EscapeInjective ==
    (fnRes.done /\ fnArg.fn = "escape_sql_literal") =>
        LET s == fnArg.s
            out == fnRes.out
        IN /\ out = Concat([i \in 1..Len(s) |-> EscapeTable(s[i])])
           /\ (\A i \in 1..Len(s) : s[i] \notin Escaped) => out = s
           /\ unescape(out) = s

\* A backslash followed by n, then a newline, was escaped.
C22_Witness ==
    /\ fnRes.done
    /\ fnArg.fn = "escape_sql_literal"
    /\ fnArg.s = << "\\", "n", "\n" >>
    /\ fnRes.out = << "\\", "\\", "n", "\\", "n" >>

\* C23: validate_identifier fails, with InvalidConfig, exactly on the empty
\* string and on strings with a null byte; any other string is returned as
\* it is.
C23_ValidateIdentifier ==
    (fnRes.done /\ fnArg.fn = "validate_identifier") =>
        LET name == fnArg.s
            bad  == name = << >> \/ \E i \in 1..Len(name) : name[i] = "NUL"
        IN /\ ~fnRes.result.ok <=> bad
           /\ ~fnRes.result.ok => fnRes.result.err = "InvalidConfig"
           /\ fnRes.result.ok => fnRes.result.value = name

\* A name with a null byte in the middle was refused and a name with a
\* quote was accepted.
C23_Witness ==
    /\ fnRes.done
    /\ fnArg.fn = "validate_identifier"
    /\ \/ fnArg.s = << "a", "NUL", "a" >> /\ ~fnRes.result.ok
       \/ fnArg.s = << "a", "'", "a" >> /\ fnRes.result.ok

-----------------------------------------------------------------------------
(* Properties of the dialect of an engine *)

ends_with(s, p) == Len(s) >= Len(p) /\ SubSeq(s, Len(s) - Len(p) + 1, Len(s)) = p

MssqlForm(executed) ==
    /\ ends_with(executed, << " ", "R", "O", "W", "S", " ", "O", "N", "L", "Y" >>)
    /\ contains(executed, << " ", "R", "O", "W", "S", " ", "F", "E", "T", "C", "H", " ", "N", "E", "X", "T", " " >>)
    /\ ~contains(executed, << ")", " ", "A", "S", " ", "_", "d", "f", "_", "p", "a", "g", "e", " ", "L", "I", "M", "I", "T", " " >>)
    /\ ~contains(executed, << ")", " ", "A", "S", " ", "_", "d", "f", "_", "c", "e", "l", "l", " ", "L", "I", "M", "I", "T", " " >>)

LimitForm(executed) ==
    /\ ~contains(executed, << " ", "R", "O", "W", "S", " ", "F", "E", "T", "C", "H", " ", "N", "E", "X", "T", " " >>)
    /\ \/ starts_with(executed, << "S", "E", "L", "E", "C", "T", " ", "*", " ", "F", "R", "O", "M", " ", "(" >>)
             /\ contains(executed, << ")", " ", "A", "S", " ", "_", "d", "f", "_", "p", "a", "g", "e", " ", "L", "I", "M", "I", "T", " " >>)
       \/ contains(executed, << ")", " ", "A", "S", " ", "_", "d", "f", "_", "c", "e", "l", "l", " ", "L", "I", "M", "I", "T", " ", "1", " ", "O", "F", "F", "S", "E", "T", " " >>)

\* C24: on an MSSQL connection execute_query_page and fetch_full_cell send
\* the driver the OFFSET ... ROWS FETCH NEXT ... ROWS ONLY statement, never
\* the LIMIT / OFFSET one; on every other SQL engine they send the
\* LIMIT / OFFSET one.
C24_MssqlDialect ==
    (fnRes.done /\ fnArg.fn \in {"page on engine", "cell on engine"}) =>
        IF fnArg.db_type = "MSSQL"
        THEN MssqlForm(fnRes.executed)
        ELSE LimitForm(fnRes.executed)

\* The same for the engines other than MSSQL.
C24_OtherEngines ==
    (fnRes.done /\ fnArg.fn \in {"page on engine", "cell on engine"}
       /\ fnArg.db_type # "MSSQL") => LimitForm(fnRes.executed)

-----------------------------------------------------------------------------
(* Properties of the tunnel failures *)

\* The forwarder of slot k ends on this step by itself: no call of the
\* manager returns or advances.
AcceptFails(k) ==
    /\ fwd[k].state = "running"
    /\ fwd'[k].state # "running"
    /\ tunnels' = tunnels
    /\ tunnelRet' = tunnelRet
    /\ caller' = caller

\* C25: an ensure_tunnel that fails returns SshTunnel and leaves the tunnel
\* map, the forwarders and the pairings as they were; a channel-open failure
\* ends one pairing and no forwarder; an accept error ends its forwarder and
\* nothing else, and an ensure_tunnel that then succeeds for an id whose
\* stored forwarder has ended does so with a tunnel of its own, stored in
\* place of the old one.
C25_TunnelFailures ==
    [][ /\ (EnsureReturns /\ ~tunnelRet'.res.ok)
           => /\ tunnelRet'.res.err = "SshTunnel"
              /\ tunnels' = tunnels
              /\ fwd' = fwd
              /\ pairs' = pairs
        /\ (pairs'.opening < pairs.opening /\ pairs'.piping = pairs.piping)
           => /\ pairs'.opening = pairs.opening - 1
              /\ fwd' = fwd
              /\ tunnels' = tunnels
        /\ \A k \in FwdIds :
              AcceptFails(k)
              => /\ \A j \in FwdIds \ {k} : fwd'[j] = fwd[j]
                 /\ pairs' = pairs
                 /\ \A id \in ConnIds :
                       (tunnels[id].present /\ tunnels[id].task_handle = k)
                       => ~TunnelIsLive(tunnels[id])'
        /\ ( /\ EnsureReturns
             /\ tunnelRet'.cfg.ssh_enabled
             /\ tunnelRet'.res.ok
             /\ tunnels[tunnelRet'.cfg.id].present
             /\ ~LiveEntry(tunnelRet'.cfg.id) )
           => /\ ~tunnelRet'.res.reused
              /\ tunnels'[tunnelRet'.cfg.id].present
              /\ tunnels'[tunnelRet'.cfg.id].task_handle
                    # tunnels[tunnelRet'.cfg.id].task_handle
      ]_vars

\* The forwarder stored for c1 has ended on an accept error, a call for c1
\* has failed since, a new establishment for c1 is about to store its
\* tunnel, and a pairing accepted earlier has just failed to open its
\* channel while another goes on copying.
C25_Witness ==
    /\ tunnels["c1"].present
    /\ fwd[tunnels["c1"].task_handle].state = "finished"
    /\ tunnelRet.op = "ensure_tunnel"
    /\ tunnelRet.cfg.id = "c1"
    /\ ~tunnelRet.res.ok
    /\ caller["u1"].pc = "store"
    /\ caller["u1"].cfg.id = "c1"
    /\ pairs.last = "channel failed"
    /\ pairs.piping = 1

-----------------------------------------------------------------------------
(* Properties of the tunnel lifecycle under the connection commands *)

\* No connection command is under way: each one issued has returned.
CommandsCompleted == \A u \in Callers : cmd[u].pc = "idle" /\ caller[u].pc = "idle"

\* C26: once every connect_db, disconnect_db and test_connection issued has
\* completed, every entry of the tunnel map is under a connection id that
\* the connection registry holds (so disconnect_db(id) can reap it); a
\* connect_db whose driver connect fails after its tunnel was established
\* leaves no entry behind.
C26_TunnelsBelongToRegistry ==
    CommandsCompleted =>
        \A id \in ConnIds : tunnels[id].present => PoolLookup(pools, id).ok

-----------------------------------------------------------------------------
(* Properties of concurrent ensure_tunnel calls *)

\* The forwarder in slot k was started for id: it is the one recorded under
\* id, or the one a call for id has spawned and is about to record.
StartedFor(k, id) ==
    \/ tunnels[id].present /\ tunnels[id].task_handle = k
    \/ \E u \in Callers :
          caller[u].pc = "store" /\ caller[u].task_handle = k /\ caller[u].cfg.id = id

RunningFor(id) == {k \in FwdIds : fwd[k].state = "running" /\ StartedFor(k, id)}

\* C27: with ensure_tunnel calls for the same id running concurrently, at
\* most one forwarder is running per connection id, and every running
\* forwarder is the one the tunnel map records (or is about to record), so
\* that remove_tunnel(id) stops every accept loop started for id.
C27_OneForwarderPerId ==
    /\ \A id \in ConnIds : Cardinality(RunningFor(id)) <= 1
    /\ \A k \in FwdIds : fwd[k].state = "running" => HandleHeld(k)

-----------------------------------------------------------------------------
(* Properties of calls sharing a query id *)

\* C28: a call returns QueryCancelled only when a cancel_query on its
\* query_id fired the signal it was awaiting while it was in flight; a call
\* is not reported as cancelled because another call under the same
\* query_id registered (which replaces the slot and drops its sender) or
\* completed (which removes the slot).
C28_CancelledOnlyByCancelQuery ==
    \A c \in Calls :
        (call[c].pc = "returned" /\ call[c].outcome.err = "QueryCancelled")
            => /\ call[c].rx = "fired"
               /\ call[c].userCancel

-----------------------------------------------------------------------------
(* Properties of the row operations during a transaction *)

\* Task t is running a statement of a row operation.
InRowOp(t) == task[t].pc \in {"row_pool_wait", "row_pool"}

\* C29: on a Postgres or MySQL driver the pinned connection is used by
\* execute_raw (and get_table_data, which calls it) alone, under the
\* transaction mutex; insert_row, delete_rows, update_cell and get_row_count
\* run on another connection of the pool and never hold the mutex, so what
\* they write is not part of the open transaction: it is durable at once and
\* no later step, a rollback included, undoes it.
C29_RowOpsOutsideTransaction ==
    [][ /\ \A t \in Tasks :
              /\ InRowOp(t)' => txnMutex' # t
              /\ task'[t].pc = "row_pool"
                 => /\ task'[t].conn \in Conns
                    /\ task'[t].conn # txn_conn'
                    /\ task'[t].conn \notin begun'
              /\ (txnMutex' = t /\ txn_conn' # 0 /\ task'[t].pc = "exec_pinned")
                 => task'[t].op = "execute_raw"
              /\ (task[t].pc = "row_pool" /\ task'[t].res = "Ok"
                     /\ task[t].op \in RowWrites)
                 => task[t].op \in rowdb'.durable
        /\ rowdb'.pending = {}
        /\ rowdb.durable \subseteq rowdb'.durable
      ]_vars

\* A transaction is open and t1 runs a raw statement on the pinned
\* connection under the mutex while t2's insert_row runs on another
\* connection; an update_cell made earlier is durable.
C29_Witness ==
    /\ txn_conn # 0
    /\ task["t1"].pc = "exec_pinned"
    /\ txnMutex = "t1"
    /\ task["t2"].pc = "row_pool"
    /\ task["t2"].op = "insert_row"
    /\ "update_cell" \in rowdb.durable

\* A rollback has just succeeded and an insert_row made before it is
\* still there.
C29_WitnessRollback ==
    /\ task["t1"].op = "rollback"
    /\ task["t1"].res = "Ok"
    /\ txn_conn = 0
    /\ "insert_row" \in rowdb.durable

-----------------------------------------------------------------------------
(* Properties of the tunnel of a registered connection *)

\* The entry under id is the tunnel a test_connection in progress has
\* established for itself rather than found.
OwnTestTunnel(id) ==
    \E u \in Callers :
        /\ cmd[u].op = "test_connection"
        /\ cmd[u].pc = "driver"
        /\ cmd[u].cfg.id = id
        /\ tunnelRet.op = "ensure_tunnel"
        /\ ~tunnelRet.res.reused

\* The tunnel stored for id serves a registered connection.
ServingTunnel(id) ==
    /\ PoolLookup(pools, id).ok
    /\ LiveEntry(id)
    /\ ~OwnTestTunnel(id)

\* C30: the tunnel serving a registered connection id stays in the tunnel
\* map, with its forwarder running, until disconnect_db(id): no step of
\* another command (a test_connection on a config of the same id with SSH
\* enabled among them) removes the entry or aborts its forwarder.
C30_TunnelKeptWhileRegistered ==
    [][\A id \in ConnIds :
          (ServingTunnel(id) /\ ~AcceptFails(tunnels[id].task_handle))
              => /\ tunnels'[id] = tunnels[id]
                 /\ LiveEntry(id)']_vars

====
